---- MODULE Spec2Model ----
(***************************************************************************)
(* The event-sourced regulation core of a7do: the append-only event log    *)
(* (shared/memory.py), the Background Core regulator                       *)
(* (a7do/background_core/core.py), the Prediction Engine                   *)
(* (a7do/cognition/prediction.py), the Boundary Detector                   *)
(* (a7do/cognition/boundary.py) and the two analyzers (shared/health.py,   *)
(* sled/phase/core.py).                                                    *)
(*                                                                         *)
(* Numbers.  The regulator's fields are Python floats.  They are modelled  *)
(* as exact rationals: an integer number of units, One units making 1.0.   *)
(* One is chosen so that every product  rate * (count / count)  the code   *)
(* forms over a batch of at most 16 records is a whole number of units     *)
(* (every rate is a multiple of 0.005 and 720720 = lcm(1..16)).  Float     *)
(* rounding is not modelled.                                               *)
(*                                                                         *)
(* The log.  rows is the SQLite table "events"; every row carries its seq. *)
(* The table is only ever read forward from a cursor (iter_since) or at    *)
(* its tail (last_seq), so the model keeps a window on it: Forget drops    *)
(* the rows that the regulator's cursor has passed, except the last row.   *)
(* Forget is not an operation of the program; it changes nothing that the  *)
(* regulator can read.  Spec and SpecBoot use the window; SpecAna and      *)
(* SpecLog keep the whole table.                                           *)
(***************************************************************************)
EXTENDS Integers, Sequences, FiniteSets, TLC

VARIABLES
    rows,        \* MemoryStore: the events table (window), ascending seq
    bg,          \* BackgroundCore object: "none" | "ready" | "raised"
    state,       \* BackgroundCore.state (a BackgroundState)
    emitted,     \* what the last step() returned
    new_count,   \* step(): len(new_events) of the last step(), -1 before any
    read_seqs,   \* step(): the seq numbers of new_events of the last step()
    high_trace,  \* observer: per full cycle, was arousal >= threshold (last few cycles)
    low_trace,   \* observer: per full cycle, did recovery stay low (last few cycles)
    updates,     \* observer: number of state_update events the regulator has emitted
    max_read,    \* observer: the greatest seq any step() of the regulator has read, 0 if none
    ticks,       \* observer: number of light ticks so far
    warmup,      \* environment: length of this run's warm-up, in full cycles
    boot_seq,    \* observer: last_seq() of the log when the regulator was constructed
    expected,    \* PredictionEngine.state.expected: << >> is None, <<m>> a mapping m
    p_in,        \* observe(): the events given to the last call
    p_out,       \* observe(): what the last call returned
    p_before,    \* observe(): state.expected when the last call began
    p_prior,     \* observer: the last Action or Outcome given in earlier calls
    threshold,   \* BoundaryDetector.threshold
    hits,        \* BoundaryDetector.state.hits: a dict from (x, y) to a count
    b_in,        \* BoundaryDetector.observe(): the events given to the last call
    b_out,       \* BoundaryDetector.observe(): what the last call returned
    b_before,    \* BoundaryDetector.observe(): state.hits when the last call began
    seen,        \* observer: per position, the prediction errors given so far
    detected,    \* observer: per position, the boundary_detected events returned so far
    h_snap,      \* HealthAnalyzer.analyze(): its result on the log as it is, None if not called
    p_snap,      \* PhaseAnalyzer.analyze(): its result on the log as it is, None if not called
    analyzers,   \* the attributes of the HealthAnalyzer and PhaseAnalyzer objects
    m_call,      \* MemoryStore: the last call made on the store
    m_result,    \* MemoryStore: what that call returned or raised
    id_file,     \* the identity file at IdentityStore.path: its JSON content, or no file
    id_store,    \* per IdentityStore object: its attributes, or not constructed
    id_uuid,     \* the number of uuid4() values drawn so far
    id_call,     \* IdentityStore: the last call made
    id_result,   \* IdentityStore: what that call returned or raised
    world,       \* World: width, height, objects, agent
    w_action,    \* World.step(): the Action given to the last call
    w_events,    \* World.step(): what the last call returned
    w_before,    \* World.step(): the agent when the last call began
    bootstrap,   \* SystemBootstrap: enable_autonomy and the A7DOAgent's state, or none
    scores,      \* PreferenceEngine.state.scores: a dict from a key to a score
    lr,          \* PreferenceEngine.lr
    f_in,        \* PreferenceEngine.observe(): the events given to the last call
    f_out,       \* PreferenceEngine.observe(): what the last call returned
    f_before,    \* PreferenceEngine.observe(): state.scores when the last call began
    engine,      \* which engine has been constructed and is being fed, "" if none
    fed,         \* observer: the events given to that engine so far, over all calls
    all_out      \* observer: the events that engine returned so far, over all calls

coreVars == <<rows, bg, state, emitted, new_count, read_seqs, high_trace, low_trace, updates, max_read, ticks, warmup, boot_seq>>
predVars == <<expected, p_in, p_out, p_before, p_prior>>
boundVars == <<threshold, hits, b_in, b_out, b_before, seen, detected>>
anaVars == <<h_snap, p_snap, analyzers>>
logVars == <<m_call, m_result>>
idVars == <<id_file, id_store, id_uuid, id_call, id_result>>
worldVars == <<world, w_action, w_events, w_before, bootstrap>>
prefVars == <<scores, lr, f_in, f_out, f_before>>
feedVars == <<engine, fed, all_out>>
vars == <<coreVars, predVars, boundVars, anaVars, logVars, idVars, worldVars, prefVars, feedVars>>

-----------------------------------------------------------------------------
(* Bounds of the exploration *)

MaxCycles == 6      \* full cycles explored after the warm-up
MaxTicks == 2       \* light ticks explored after the warm-up
MaxUnread == 12     \* rows waiting for the regulator
MaxPrior == 30      \* rows in the log before a regulator is constructed
MaxObserve == 2     \* events in one observe() call
MaxThreshold == 2   \* BoundaryDetector(threshold)
MaxHits == 3        \* prediction errors given to a BoundaryDetector at one position
MaxBatch == 2       \* events in one BoundaryDetector.observe() call
MaxWindow == 5      \* events that arrive in the log the analyzers read
MaxLog == 4         \* rows in the log before a writer stops
MaxLogSteps == 2    \* step() calls of the regulator that shares the log
MaxIncarnation == 3 \* the incarnation at which rebuilds stop
MaxUuid == 4        \* uuid4() values drawn by IdentityStore objects
MaxBootRows == 10   \* rows in the log before a SystemBootstrap stops being called
MaxOk == 2          \* Outcomes with ok true, and with ok false, in one batch of signals
MaxFed == 4         \* events given to one engine over all its observe() calls
MaxCall == 3        \* events in one observe() call of an engine that is followed over its calls

\* A run may begin with a warm-up: the first step() finds nothing new and each
\* later one finds a Hot batch, for this many full cycles.  After the warm-up
\* (or from the start) the writers are free.
Warmups == {0, 19, 24}

-----------------------------------------------------------------------------
(* Numbers *)

One == 400 * 720720

\* n thousandths
Milli(n) == n * (One \div 1000)

\* c * (num / den)
Scale(c, num, den) == (c * num) \div den

\* num / den, for den in 1..16
Ratio(num, den) == num * (One \div den)

Max(a, b) == IF a >= b THEN a ELSE b
Min(a, b) == IF a <= b THEN a ELSE b

\* F applied to the value of x: x is evaluated once, like the right-hand side
\* of an assignment to a local variable
Bind(x, F(_)) == CHOOSE y \in {F(v) : v \in {x}} : TRUE

\* no event
NoEvent == [type |-> "none", source |-> "", name |-> "", payload |-> << >>, confidence |-> 0 - 1]

\* Python's None: as a payload value, and as an absent Optional[float]
None == "None"
NoFloat == 0 - 1

\* no call on the store has been made
NoCall == [op |-> "none", arg |-> << >>]

\* no snapshot: analyze() has not been called
NoSnapshot == [event_count |-> 0 - 1]

\* os.path.exists(path) is false
NoFile == [exists |-> FALSE, data |-> << >>]

\* World.agent is None; no World object
NoAgent == [spawned |-> FALSE]
NoWorld == [width |-> 0, height |-> 0, objects |-> << >>, agent |-> NoAgent]

\* no SystemBootstrap object
NoBootstrap == [constructed |-> FALSE]

-----------------------------------------------------------------------------
(* BackgroundConfig defaults *)

arousal_min == Milli(20)
arousal_max == One
confidence_min == Milli(20)
confidence_max == One
uncertainty_min == 0
uncertainty_max == One
curiosity_min == 0
curiosity_max == One
valence_min == 0 - One
valence_max == One

arousal_decay == Milli(30)
uncertainty_decay_on_experience == Milli(20)
curiosity_rise_on_stagnation == Milli(30)
curiosity_decay_on_novelty == Milli(20)

arousal_bump_on_observation == Milli(15)
arousal_bump_on_failure == Milli(60)
confidence_drop_on_failure == Milli(40)
confidence_rise_on_success == Milli(20)

confidence_floor_rise_on_recovery == Milli(10)
confidence_floor_max == Milli(600)

cycle_event_threshold == 10
stagnation_event_threshold == 0

high_arousal_threshold == Milli(850)
low_recovery_threshold == Milli(120)
high_arousal_cycle_limit == 6
low_recovery_cycle_limit == 8

-----------------------------------------------------------------------------
(* BackgroundState defaults *)

BackgroundState ==
    [ arousal |-> Milli(150),
      valence |-> 0,
      confidence |-> Milli(100),
      confidence_floor |-> Milli(50),
      uncertainty |-> Milli(850),
      curiosity |-> Milli(250),
      last_seen_seq |-> 0,
      cycles |-> 0,
      consecutive_high_arousal_cycles |-> 0,
      consecutive_low_recovery_cycles |-> 0 ]

-----------------------------------------------------------------------------
(* shared/events.py: the convenience constructors *)

observation(source, name, payload) ==
    [type |-> "observation", source |-> source, name |-> name,
     payload |-> payload, confidence |-> NoFloat]

action(source, name, payload) ==
    [type |-> "action", source |-> source, name |-> name,
     payload |-> payload, confidence |-> NoFloat]

outcome(source, name, payload) ==
    [type |-> "outcome", source |-> source, name |-> name,
     payload |-> payload, confidence |-> NoFloat]

internal(source, name, payload, confidence) ==
    [type |-> "internal", source |-> source, name |-> name,
     payload |-> payload, confidence |-> confidence]

system_event(source, name, payload) ==
    [type |-> "system", source |-> source, name |-> name,
     payload |-> payload, confidence |-> NoFloat]

\* Python values whose kind the program tests or a conversion changes
PyNone == [py |-> "None", items |-> << >>]
PyList(items) == [py |-> "list", items |-> items]
PyTuple(items) == [py |-> "tuple", items |-> items]

-----------------------------------------------------------------------------
(* shared/memory.py: MemoryStore *)

\* SELECT COALESCE(MAX(seq), 0): rows is kept in ascending seq order
last_seq(tbl) == IF tbl = <<>> THEN 0 ELSE tbl[Len(tbl)].seq

\* mutant of iter_since: the row at the cursor is read again
iter_since_inclusive(tbl, seq_exclusive) ==
    SelectSeq(tbl, LAMBDA r : r.seq >= seq_exclusive)

\* SELECT * FROM events WHERE seq > ? ORDER BY seq ASC
iter_since(tbl, seq_exclusive) ==
    SelectSeq(tbl, LAMBDA r : r.seq > seq_exclusive)

\* SELECT * FROM events ORDER BY seq DESC LIMIT n, reversed
recent(tbl, n) ==
    LET k == Min(Max(0, n), Len(tbl))
    IN  [i \in 1..k |-> tbl[Len(tbl) - k + i].event]

\* mutant of append_many: the batch is inserted last event first
append_many_reversed(tbl, events) ==
    tbl \o [i \in 1..Len(events) |->
              [seq |-> last_seq(tbl) + i, event |-> events[Len(events) + 1 - i]]]

\* what a call returned, or the exception it raised
Returned(v) == [raised |-> "", value |-> v]
Raised(x) == [raised |-> x, value |-> << >>]

\* a payload that json.dumps rejects with TypeError (it holds a set, say)
NotJson == [unserializable |-> TRUE]

\* a payload that json.dumps rejects with ValueError (it contains itself)
Circular == [circular |-> TRUE]

\* the exception json.dumps(payload) raises, "" when it returns
json_dumps_raises(payload) ==
    IF payload = NotJson THEN "TypeError"
    ELSE IF payload = Circular THEN "ValueError"
    ELSE ""

\* the exception _event_to_row(e) raises, "" when it returns: except TypeError
_event_to_row_raises(e) ==
    IF json_dumps_raises(e.payload) = "TypeError" THEN "MemoryError"
    ELSE json_dumps_raises(e.payload)

\* _event_to_row(e) succeeds
Serializable(e) == _event_to_row_raises(e) = ""

\* the first event of a batch that _event_to_row rejects
FirstRejected(events) ==
    CHOOSE i \in DOMAIN events :
        /\ ~Serializable(events[i])
        /\ \A j \in 1..(i - 1) : Serializable(events[j])

\* the payload keys under which the program holds a sequence (a list or a
\* tuple); every other payload value is a number, a string or a dict
SeqKeys == {"from", "attempt", "at", "position"}

\* a JSON array in payload_json
JsonArray(items) == [json |-> "array", items |-> items]

\* json.dumps(payload): lists and tuples alike are written as arrays
json_dumps(payload) ==
    IF DOMAIN payload \cap SeqKeys = {} THEN payload
    ELSE [k \in DOMAIN payload |->
            IF k \in SeqKeys /\ "py" \in DOMAIN payload[k]
                            /\ payload[k].py \in {"list", "tuple"}
            THEN JsonArray(payload[k].items)
            ELSE payload[k]]

\* json.loads(payload_json): an array is read as a list
json_loads(text) ==
    IF DOMAIN text \cap SeqKeys = {} THEN text
    ELSE [k \in DOMAIN text |->
            IF k \in SeqKeys /\ "json" \in DOMAIN text[k]
            THEN PyList(text[k].items)
            ELSE text[k]]

\* _event_to_row(e), for an event it does not reject
_event_to_row(e) ==
    [k \in (DOMAIN e \ {"payload"}) \cup {"payload_json"} |->
        IF k = "payload_json" THEN json_dumps(e.payload) ELSE e[k]]

\* _row_to_event(row)
_row_to_event(row) ==
    [k \in (DOMAIN row \ {"payload_json"}) \cup {"payload"} |->
        IF k = "payload" THEN json_loads(row.payload_json) ELSE row[k]]

\* id TEXT NOT NULL UNIQUE.  An event built without an explicit id has a
\* fresh uuid4 and carries no id field here: it collides with nothing.
IdTaken(tbl, e) ==
    /\ "id" \in DOMAIN e
    /\ \E i \in DOMAIN tbl : "id" \in DOMAIN tbl[i].event /\ tbl[i].event.id = e.id

\* one INSERT; seq INTEGER PRIMARY KEY AUTOINCREMENT.  The table keeps each
\* row as every read returns it, through _row_to_event
Insert(tbl, e) ==
    Append(tbl, [seq |-> last_seq(tbl) + 1,
                 event |-> _row_to_event(_event_to_row(e))])

\* MemoryStore.append(event): the table afterwards and the outcome of the call
append(tbl, event) ==
    IF ~Serializable(event)
    THEN [rows |-> tbl, result |-> Raised(_event_to_row_raises(event))]
    ELSE IF IdTaken(tbl, event)
         THEN [rows |-> tbl, result |-> Raised("MemoryIntegrityError")]
         ELSE [rows |-> Insert(tbl, event), result |-> Returned(last_seq(tbl) + 1)]

\* conn.executemany(INSERT, rows): one INSERT after the other inside the
\* open transaction; the first one that violates the UNIQUE constraint
\* raises, the rows inserted before it stay in the transaction, which this
\* connection reads and its next commit() makes durable
RECURSIVE executemany(_, _)
executemany(tbl, events) ==
    IF events = << >> THEN [rows |-> tbl, raised |-> ""]
    ELSE IF IdTaken(tbl, Head(events)) THEN [rows |-> tbl, raised |-> "IntegrityError"]
    ELSE Bind(Insert(tbl, Head(events)), LAMBDA t : executemany(t, Tail(events)))

\* MemoryStore.append_many(events): the table afterwards
append_many(tbl, events) ==
    IF events = << >> THEN tbl
    ELSE IF \E i \in DOMAIN events : ~Serializable(events[i]) THEN tbl
    ELSE executemany(tbl, events).rows

\* MemoryStore.append_many(events): the outcome of the call
append_many_result(tbl, events) ==
    IF events = << >> THEN Returned(<<0, last_seq(tbl)>>)
    ELSE IF \E i \in DOMAIN events : ~Serializable(events[i])
         THEN Raised(_event_to_row_raises(events[FirstRejected(events)]))
    ELSE Bind(executemany(tbl, events), LAMBDA done :
             IF done.raised # "" THEN Raised("MemoryIntegrityError")
             ELSE Returned(<<Len(events), last_seq(done.rows)>>))

\* mutant of delete_all_events: the table is emptied
delete_all_events_wipe(tbl) == [rows |-> << >>, result |-> Returned(<< >>)]

\* mutant of delete_all_events: nothing happens
delete_all_events_quiet(tbl) == [rows |-> tbl, result |-> Returned(<< >>)]

\* MemoryStore.delete_all_events()
delete_all_events(tbl) == [rows |-> tbl, result |-> Raised("MemoryIntegrityError")]

-----------------------------------------------------------------------------
(* a7do/background_core/core.py: BackgroundCore *)

\* mutant of _clamp: the lower bound is forgotten
_clamp_no_lower(v, lo, hi) == Min(hi, v)

_clamp(v, lo, hi) == Max(lo, Min(hi, v))

_clamp_all(st) ==
    [st EXCEPT
        !.arousal = _clamp(st.arousal, arousal_min, arousal_max),
        !.confidence = _clamp(st.confidence, confidence_min, confidence_max),
        !.confidence_floor = _clamp(st.confidence_floor, 0, confidence_floor_max),
        !.uncertainty = _clamp(st.uncertainty, uncertainty_min, uncertainty_max),
        !.curiosity = _clamp(st.curiosity, curiosity_min, curiosity_max),
        !.valence = _clamp(st.valence, valence_min, valence_max)]

_snapshot(st) ==
    [arousal |-> st.arousal,
     valence |-> st.valence,
     confidence |-> st.confidence,
     confidence_floor |-> st.confidence_floor,
     uncertainty |-> st.uncertainty,
     curiosity |-> st.curiosity]

_delta(st, prev) ==
    [k \in DOMAIN _snapshot(st) |-> _snapshot(st)[k] - prev[k]]

\* the number of list entries that satisfy P (one pass of a counting loop)
CountIf(list, P(_)) == Cardinality({i \in DOMAIN list : P(list[i])})

\* e.payload.get("ok", None)
PayloadOk(e) == IF "ok" \in DOMAIN e.payload THEN e.payload.ok ELSE None

\* mutant of _extract_signals: "ok" is tested for truth, so an Outcome
\* whose "ok" is 1 is a success and one without "ok" a failure
_extract_signals_truthy(new_events) ==
    LET obs == CountIf(new_events, LAMBDA r : r.event.type = "observation")
        act == CountIf(new_events, LAMBDA r : r.event.type = "action")
        outc == CountIf(new_events, LAMBDA r : r.event.type = "outcome")
        intr == CountIf(new_events, LAMBDA r : r.event.type = "internal")
        sys == CountIf(new_events, LAMBDA r : r.event.type = "system")
        successes == CountIf(new_events, LAMBDA r :
                        r.event.type = "outcome" /\ PayloadOk(r.event) \in {"True", "1"})
        failures == CountIf(new_events, LAMBDA r :
                        r.event.type = "outcome" /\ PayloadOk(r.event) \notin {"True", "1"})
        total == Max(1, Len(new_events))
    IN  [new_total |-> Len(new_events),
         obs |-> obs,
         act |-> act,
         outcome |-> outc,
         internal |-> intr,
         system |-> sys,
         failure_rate |-> [num |-> failures, den |-> Max(1, failures + successes)],
         activity_ratio |-> [num |-> obs + act + outc, den |-> total]]

\* Ratios are kept as [num, den]; they are multiplied into a rate by Scale.
_extract_signals(new_events) ==
    LET obs == CountIf(new_events, LAMBDA r : r.event.type = "observation")
        act == CountIf(new_events, LAMBDA r : r.event.type = "action")
        outc == CountIf(new_events, LAMBDA r : r.event.type = "outcome")
        intr == CountIf(new_events, LAMBDA r : r.event.type = "internal")
        sys == CountIf(new_events, LAMBDA r : r.event.type = "system")
        successes == CountIf(new_events, LAMBDA r :
                        r.event.type = "outcome" /\ PayloadOk(r.event) = "True")
        failures == CountIf(new_events, LAMBDA r :
                        r.event.type = "outcome" /\ PayloadOk(r.event) = "False")
        total == Max(1, Len(new_events))
    IN  [new_total |-> Len(new_events),
         obs |-> obs,
         act |-> act,
         outcome |-> outc,
         internal |-> intr,
         system |-> sys,
         failure_rate |-> [num |-> failures, den |-> Max(1, failures + successes)],
         activity_ratio |-> [num |-> obs + act + outc, den |-> total]]

_apply_experience(st, signal) ==
    LET fr == signal.failure_rate
        failed == fr.num > 0
        \* success_inferred = max(0.0, 1.0 - failure_rate)
        succ == Max(0, fr.den - fr.num)
        \* min(1.0, activity_ratio)
        actv == Min(signal.activity_ratio.den, signal.activity_ratio.num)
        a1 == st.arousal
                + Scale(arousal_bump_on_observation, signal.obs, Max(1, signal.new_total))
        a2 == IF failed THEN a1 + Scale(arousal_bump_on_failure, fr.num, fr.den) ELSE a1
        c2 == IF failed THEN st.confidence - Scale(confidence_drop_on_failure, fr.num, fr.den)
                        ELSE st.confidence
        u2 == IF failed THEN st.uncertainty + Scale(Milli(30), fr.num, fr.den)
                        ELSE st.uncertainty
    IN  [st EXCEPT
            !.confidence = c2 + Scale(confidence_rise_on_success, succ, fr.den),
            !.uncertainty = u2 - Scale(uncertainty_decay_on_experience, succ, fr.den),
            !.curiosity = st.curiosity
                - Scale(curiosity_decay_on_novelty, actv, signal.activity_ratio.den),
            !.arousal = a2 - arousal_decay]

_apply_stagnation(st) ==
    [st EXCEPT
        !.curiosity = st.curiosity + curiosity_rise_on_stagnation,
        !.arousal = st.arousal - arousal_decay,
        !.uncertainty = st.uncertainty + Milli(10),
        !.confidence = IF st.confidence > st.confidence_floor
                       THEN st.confidence - Milli(10) ELSE st.confidence]

\* mutant of _apply_confidence_floor_logic: the floor follows the confidence the
\* cycle computed, not the confidence after it was lifted back to the floor
_apply_confidence_floor_logic_raw(st, prev) ==
    LET conf == IF st.confidence < st.confidence_floor
                THEN st.confidence_floor ELSE st.confidence
        arousal_decreased == st.arousal < prev.arousal
        confidence_increased == conf > prev.confidence
        raised == st.confidence_floor + confidence_floor_rise_on_recovery
        floor1 == IF arousal_decreased /\ confidence_increased
                  THEN (IF raised > confidence_floor_max
                        THEN confidence_floor_max ELSE raised)
                  ELSE st.confidence_floor
        floor2 == IF floor1 > st.confidence THEN Min(floor1, st.confidence) ELSE floor1
    IN  [st EXCEPT !.confidence = conf, !.confidence_floor = floor2]

\* mutant of _apply_confidence_floor_logic: either sign of recovery alone
\* raises the floor
_apply_confidence_floor_logic_either(st, prev) ==
    LET conf == IF st.confidence < st.confidence_floor
                THEN st.confidence_floor ELSE st.confidence
        arousal_decreased == st.arousal < prev.arousal
        confidence_increased == conf > prev.confidence
        raised == st.confidence_floor + confidence_floor_rise_on_recovery
        floor1 == IF arousal_decreased \/ confidence_increased
                  THEN (IF raised > confidence_floor_max
                        THEN confidence_floor_max ELSE raised)
                  ELSE st.confidence_floor
        floor2 == IF floor1 > conf THEN Min(floor1, conf) ELSE floor1
    IN  [st EXCEPT !.confidence = conf, !.confidence_floor = floor2]

\* mutant of _apply_confidence_floor_logic: a floor that was raised past the
\* confidence goes back to the initial floor instead of onto the confidence
_apply_confidence_floor_logic_reset(st, prev) ==
    LET conf == IF st.confidence < st.confidence_floor
                THEN st.confidence_floor ELSE st.confidence
        arousal_decreased == st.arousal < prev.arousal
        confidence_increased == conf > prev.confidence
        raised == st.confidence_floor + confidence_floor_rise_on_recovery
        floor1 == IF arousal_decreased /\ confidence_increased
                  THEN (IF raised > confidence_floor_max
                        THEN confidence_floor_max ELSE raised)
                  ELSE st.confidence_floor
        floor2 == IF floor1 > conf THEN Min(floor1, BackgroundState.confidence_floor) ELSE floor1
    IN  [st EXCEPT !.confidence = conf, !.confidence_floor = floor2]

_apply_confidence_floor_logic(st, prev) ==
    LET conf == IF st.confidence < st.confidence_floor
                THEN st.confidence_floor ELSE st.confidence
        arousal_decreased == st.arousal < prev.arousal
        confidence_increased == conf > prev.confidence
        raised == st.confidence_floor + confidence_floor_rise_on_recovery
        floor1 == IF arousal_decreased /\ confidence_increased
                  THEN (IF raised > confidence_floor_max
                        THEN confidence_floor_max ELSE raised)
                  ELSE st.confidence_floor
        floor2 == IF floor1 > conf THEN Min(floor1, conf) ELSE floor1
    IN  [st EXCEPT !.confidence = conf, !.confidence_floor = floor2]

\* mutant of _burnout_guard: the high-arousal warning waits for the streak to
\* exceed the limit
_burnout_guard_late(st, prev) ==
    LET high == IF st.arousal >= high_arousal_threshold
                THEN st.consecutive_high_arousal_cycles + 1 ELSE 0
        confidence_gain == st.confidence - prev.confidence
        low == IF confidence_gain < low_recovery_threshold /\ st.arousal >= prev.arousal
               THEN st.consecutive_low_recovery_cycles + 1 ELSE 0
        w1 == IF high > high_arousal_cycle_limit
              THEN << system_event("background_core", "warning_high_arousal_persistence",
                         [cycles |-> st.cycles,
                          consecutive |-> high,
                          arousal |-> st.arousal,
                          confidence |-> st.confidence,
                          uncertainty |-> st.uncertainty]) >>
              ELSE << >>
        w2 == IF low >= low_recovery_cycle_limit
              THEN << system_event("background_core", "warning_low_recovery_persistence",
                         [cycles |-> st.cycles,
                          consecutive |-> low,
                          arousal |-> st.arousal,
                          confidence |-> st.confidence,
                          confidence_floor |-> st.confidence_floor]) >>
              ELSE << >>
    IN  [state |-> [st EXCEPT !.consecutive_high_arousal_cycles = high,
                              !.consecutive_low_recovery_cycles = low],
         warnings |-> w1 \o w2]

\* mutant of _burnout_guard: the low-recovery streak looks at the confidence
\* gained only, not at arousal
_burnout_guard_gain_only(st, prev) ==
    LET high == IF st.arousal >= high_arousal_threshold
                THEN st.consecutive_high_arousal_cycles + 1 ELSE 0
        confidence_gain == st.confidence - prev.confidence
        low == IF confidence_gain < low_recovery_threshold
               THEN st.consecutive_low_recovery_cycles + 1 ELSE 0
        w1 == IF high >= high_arousal_cycle_limit
              THEN << system_event("background_core", "warning_high_arousal_persistence",
                         [cycles |-> st.cycles,
                          consecutive |-> high,
                          arousal |-> st.arousal,
                          confidence |-> st.confidence,
                          uncertainty |-> st.uncertainty]) >>
              ELSE << >>
        w2 == IF low >= low_recovery_cycle_limit
              THEN << system_event("background_core", "warning_low_recovery_persistence",
                         [cycles |-> st.cycles,
                          consecutive |-> low,
                          arousal |-> st.arousal,
                          confidence |-> st.confidence,
                          confidence_floor |-> st.confidence_floor]) >>
              ELSE << >>
    IN  [state |-> [st EXCEPT !.consecutive_high_arousal_cycles = high,
                              !.consecutive_low_recovery_cycles = low],
         warnings |-> w1 \o w2]

\* mutant of _burnout_guard: only an arousal that rose counts as low
\* recovery, an arousal that stayed where it was resets the streak
_burnout_guard_rise_only(st, prev) ==
    LET high == IF st.arousal >= high_arousal_threshold
                THEN st.consecutive_high_arousal_cycles + 1 ELSE 0
        confidence_gain == st.confidence - prev.confidence
        low == IF confidence_gain < low_recovery_threshold /\ st.arousal > prev.arousal
               THEN st.consecutive_low_recovery_cycles + 1 ELSE 0
        w1 == IF high >= high_arousal_cycle_limit
              THEN << system_event("background_core", "warning_high_arousal_persistence",
                         [cycles |-> st.cycles,
                          consecutive |-> high,
                          arousal |-> st.arousal,
                          confidence |-> st.confidence,
                          uncertainty |-> st.uncertainty]) >>
              ELSE << >>
        w2 == IF low >= low_recovery_cycle_limit
              THEN << system_event("background_core", "warning_low_recovery_persistence",
                         [cycles |-> st.cycles,
                          consecutive |-> low,
                          arousal |-> st.arousal,
                          confidence |-> st.confidence,
                          confidence_floor |-> st.confidence_floor]) >>
              ELSE << >>
    IN  [state |-> [st EXCEPT !.consecutive_high_arousal_cycles = high,
                              !.consecutive_low_recovery_cycles = low],
         warnings |-> w1 \o w2]

\* returns the state with both streak counters updated, and the warnings
_burnout_guard(st, prev) ==
    LET high == IF st.arousal >= high_arousal_threshold
                THEN st.consecutive_high_arousal_cycles + 1 ELSE 0
        confidence_gain == st.confidence - prev.confidence
        low == IF confidence_gain < low_recovery_threshold /\ st.arousal >= prev.arousal
               THEN st.consecutive_low_recovery_cycles + 1 ELSE 0
        w1 == IF high >= high_arousal_cycle_limit
              THEN << system_event("background_core", "warning_high_arousal_persistence",
                         [cycles |-> st.cycles,
                          consecutive |-> high,
                          arousal |-> st.arousal,
                          confidence |-> st.confidence,
                          uncertainty |-> st.uncertainty]) >>
              ELSE << >>
        w2 == IF low >= low_recovery_cycle_limit
              THEN << system_event("background_core", "warning_low_recovery_persistence",
                         [cycles |-> st.cycles,
                          consecutive |-> low,
                          arousal |-> st.arousal,
                          confidence |-> st.confidence,
                          confidence_floor |-> st.confidence_floor]) >>
              ELSE << >>
    IN  [state |-> [st EXCEPT !.consecutive_high_arousal_cycles = high,
                              !.consecutive_low_recovery_cycles = low],
         warnings |-> w1 \o w2]

\* mutant of _cycle: the cycle counter is raised before the state_update is
\* built
_cycle_counted_first(st, new_events, stagnation) ==
    Bind(_snapshot(st), LAMBDA prev :
    Bind(_extract_signals(new_events), LAMBDA signal :
    Bind(IF stagnation THEN _apply_stagnation(st)
                       ELSE _apply_experience(st, signal), LAMBDA s2 :
    Bind(_clamp_all(s2), LAMBDA s3 :
    Bind(_apply_confidence_floor_logic(s3, prev), LAMBDA s4 :
    Bind(_burnout_guard(s4, prev), LAMBDA g :
        [state |-> [g.state EXCEPT !.cycles = @ + 1],
         emitted |->
            << internal("background_core", "state_update",
                   [cycles |-> g.state.cycles + 1,
                    stagnation |-> stagnation,
                    delta |-> _delta(g.state, prev),
                    state |-> _snapshot(g.state),
                    signal |-> signal],
                   g.state.confidence) >>
            \o g.warnings]))))))

\* returns the state after the cycle and the events it emits
_cycle(st, new_events, stagnation) ==
    Bind(_snapshot(st), LAMBDA prev :
    Bind(_extract_signals(new_events), LAMBDA signal :
    Bind(IF stagnation THEN _apply_stagnation(st)
                       ELSE _apply_experience(st, signal), LAMBDA s2 :
    Bind(_clamp_all(s2), LAMBDA s3 :
    Bind(_apply_confidence_floor_logic(s3, prev), LAMBDA s4 :
    Bind(_burnout_guard(s4, prev), LAMBDA g :
        [state |-> [g.state EXCEPT !.cycles = @ + 1],
         emitted |->
            << internal("background_core", "state_update",
                   [cycles |-> g.state.cycles,
                    stagnation |-> stagnation,
                    delta |-> _delta(g.state, prev),
                    state |-> _snapshot(g.state),
                    signal |-> signal],
                   g.state.confidence) >>
            \o g.warnings]))))))

\* mutant of _light_tick: the drift is not bounded by the floor
_light_tick_no_floor(st, count) ==
    Bind(_snapshot(st), LAMBDA prev :
    Bind([st EXCEPT !.arousal = @ - arousal_decay \div 2], LAMBDA s1 :
    Bind(IF count > 0
         THEN [s1 EXCEPT
                 !.uncertainty = @ - uncertainty_decay_on_experience \div 4,
                 !.curiosity = @ - curiosity_decay_on_novelty \div 4]
         ELSE [s1 EXCEPT
                 !.curiosity = @ + curiosity_rise_on_stagnation \div 4], LAMBDA s2 :
    Bind(IF s2.confidence < s2.confidence_floor
         THEN s2.confidence_floor
         ELSE s2.confidence - Milli(5), LAMBDA conf :
    Bind(_clamp_all([s2 EXCEPT !.confidence = conf]), LAMBDA s3 :
        [state |-> s3,
         emitted |-> << internal("background_core", "light_tick",
                           [new_event_count |-> count,
                            delta |-> _delta(s3, prev),
                            state |-> _snapshot(s3)],
                           s3.confidence) >>])))))

\* mutant of _light_tick: the burnout guard runs in a light tick too
_light_tick_guarded(st, count) ==
    Bind(_snapshot(st), LAMBDA prev :
    Bind([st EXCEPT !.arousal = @ - arousal_decay \div 2], LAMBDA s1 :
    Bind(IF count > 0
         THEN [s1 EXCEPT
                 !.uncertainty = @ - uncertainty_decay_on_experience \div 4,
                 !.curiosity = @ - curiosity_decay_on_novelty \div 4]
         ELSE [s1 EXCEPT
                 !.curiosity = @ + curiosity_rise_on_stagnation \div 4], LAMBDA s2 :
    Bind(IF s2.confidence < s2.confidence_floor
         THEN s2.confidence_floor
         ELSE IF s2.confidence - Milli(5) < s2.confidence_floor
              THEN s2.confidence_floor
              ELSE s2.confidence - Milli(5), LAMBDA conf :
    Bind(_clamp_all([s2 EXCEPT !.confidence = conf]), LAMBDA s3 :
    Bind(_burnout_guard(s3, prev), LAMBDA g :
        [state |-> g.state,
         emitted |-> << internal("background_core", "light_tick",
                           [new_event_count |-> count,
                            delta |-> _delta(g.state, prev),
                            state |-> _snapshot(g.state)],
                           g.state.confidence) >>
                     \o g.warnings]))))))

_light_tick(st, count) ==
    Bind(_snapshot(st), LAMBDA prev :
    Bind([st EXCEPT !.arousal = @ - arousal_decay \div 2], LAMBDA s1 :
    Bind(IF count > 0
         THEN [s1 EXCEPT
                 !.uncertainty = @ - uncertainty_decay_on_experience \div 4,
                 !.curiosity = @ - curiosity_decay_on_novelty \div 4]
         ELSE [s1 EXCEPT
                 !.curiosity = @ + curiosity_rise_on_stagnation \div 4], LAMBDA s2 :
    Bind(IF s2.confidence < s2.confidence_floor
         THEN s2.confidence_floor
         ELSE IF s2.confidence - Milli(5) < s2.confidence_floor
              THEN s2.confidence_floor
              ELSE s2.confidence - Milli(5), LAMBDA conf :
    Bind(_clamp_all([s2 EXCEPT !.confidence = conf]), LAMBDA s3 :
        [state |-> s3,
         emitted |-> << internal("background_core", "light_tick",
                           [new_event_count |-> count,
                            delta |-> _delta(s3, prev),
                            state |-> _snapshot(s3)],
                           s3.confidence) >>])))))

\* mutant of step: a batch of exactly the threshold is not enough for a cycle
step_strict_threshold(st, tbl) ==
    Bind(iter_since(tbl, st.last_seen_seq), LAMBDA new_events :
    Bind(IF Len(new_events) > cycle_event_threshold
         THEN _cycle(st, new_events, FALSE)
         ELSE IF Len(new_events) <= stagnation_event_threshold
              THEN _cycle(st, << >>, TRUE)
              ELSE _light_tick(st, Len(new_events)), LAMBDA r :
    Bind(IF r.emitted # << >> THEN append_many(tbl, r.emitted) ELSE tbl, LAMBDA tbl2 :
        [state |-> [r.state EXCEPT
                      !.last_seen_seq = IF new_events # << >> THEN new_events[Len(new_events)].seq
                                    ELSE st.last_seen_seq],
         emitted |-> r.emitted,
         rows |-> tbl2,
         new_events |-> new_events])))

\* mutant of step: the cursor is put at the tail of the log after the append
step_cursor_at_tail(st, tbl) ==
    Bind(iter_since(tbl, st.last_seen_seq), LAMBDA new_events :
    Bind(IF Len(new_events) >= cycle_event_threshold
         THEN _cycle(st, new_events, FALSE)
         ELSE IF Len(new_events) <= stagnation_event_threshold
              THEN _cycle(st, << >>, TRUE)
              ELSE _light_tick(st, Len(new_events)), LAMBDA r :
    Bind(IF r.emitted # << >> THEN append_many(tbl, r.emitted) ELSE tbl, LAMBDA tbl2 :
        [state |-> [r.state EXCEPT
                      !.last_seen_seq = last_seq(tbl2)],
         emitted |-> r.emitted,
         rows |-> tbl2,
         new_events |-> new_events])))

\* mutant of step: only a full cycle moves the cursor, a light tick leaves
\* the records it read unread
step_tick_keeps_cursor(st, tbl) ==
    Bind(iter_since(tbl, st.last_seen_seq), LAMBDA new_events :
    Bind(IF Len(new_events) >= cycle_event_threshold
         THEN _cycle(st, new_events, FALSE)
         ELSE IF Len(new_events) <= stagnation_event_threshold
              THEN _cycle(st, << >>, TRUE)
              ELSE _light_tick(st, Len(new_events)), LAMBDA r :
    Bind(IF r.emitted # << >> THEN append_many(tbl, r.emitted) ELSE tbl, LAMBDA tbl2 :
        [state |-> [r.state EXCEPT
                      !.last_seen_seq = IF Len(new_events) >= cycle_event_threshold
                                    THEN new_events[Len(new_events)].seq
                                    ELSE st.last_seen_seq],
         emitted |-> r.emitted,
         rows |-> tbl2,
         new_events |-> new_events])))

\* mutant of step: the threshold is applied to the size of the log, not to
\* the number of new events
step_counts_whole_log(st, tbl) ==
    Bind(iter_since(tbl, st.last_seen_seq), LAMBDA new_events :
    Bind(IF Len(tbl) >= cycle_event_threshold
         THEN _cycle(st, new_events, FALSE)
         ELSE IF Len(new_events) <= stagnation_event_threshold
              THEN _cycle(st, << >>, TRUE)
              ELSE _light_tick(st, Len(new_events)), LAMBDA r :
    Bind(IF r.emitted # << >> THEN append_many(tbl, r.emitted) ELSE tbl, LAMBDA tbl2 :
        [state |-> [r.state EXCEPT
                      !.last_seen_seq = IF new_events # << >> THEN new_events[Len(new_events)].seq
                                    ELSE st.last_seen_seq],
         emitted |-> r.emitted,
         rows |-> tbl2,
         new_events |-> new_events])))

\* step(): the regulator state, the returned events and the table afterwards
step(st, tbl) ==
    Bind(iter_since(tbl, st.last_seen_seq), LAMBDA new_events :
    Bind(IF Len(new_events) >= cycle_event_threshold
         THEN _cycle(st, new_events, FALSE)
         ELSE IF Len(new_events) <= stagnation_event_threshold
              THEN _cycle(st, << >>, TRUE)
              ELSE _light_tick(st, Len(new_events)), LAMBDA r :
    Bind(IF r.emitted # << >> THEN append_many(tbl, r.emitted) ELSE tbl, LAMBDA tbl2 :
        [state |-> [r.state EXCEPT
                      !.last_seen_seq = IF new_events # << >> THEN new_events[Len(new_events)].seq
                                    ELSE st.last_seen_seq],
         emitted |-> r.emitted,
         rows |-> tbl2,
         new_events |-> new_events])))

-----------------------------------------------------------------------------
(* The writers of the log other than the regulator *)

\* world.step on a move that succeeds, as bootstrap.apply_move logs it
MoveOk ==
    << action("user", "move", [dx |-> 1, dy |-> 0]),
       observation("world", "position", [x |-> 3, y |-> 2]),
       outcome("world", "move_ok", [ok |-> "True"]) >>

\* a burst of boundary contacts around one blocked move
Hot ==
    [i \in 1..8 |-> observation("world", "boundary_contact",
                        [from |-> PyTuple(<<4, 2>>), attempt |-> PyTuple(<<5, 2>>)])]
    \o << outcome("world", "move_blocked", [ok |-> "False", reason |-> "out_of_bounds"]) >>

\* three moves that succeed
Calm == MoveOk \o MoveOk \o MoveOk

Batches == {Calm, Hot}

\* what a log holds when a regulator is constructed over it
PriorLogs == { << >>, append_many(<< >>, MoveOk) }

-----------------------------------------------------------------------------
(* The window on the table *)

Compact(tbl, cursor) ==
    SelectSeq(tbl, LAMBDA r : r.seq > cursor \/ r.seq = last_seq(tbl))

Compacted == Compact(rows, state.last_seen_seq) = rows

Unread == Len(iter_since(rows, state.last_seen_seq))

InWarmup == state.cycles < warmup

IsFullCycle(evs) == evs # << >> /\ evs[1].name = "state_update"

Push(trace, flag) ==
    LET t == Append(trace, flag)
    IN  IF Len(t) > high_arousal_cycle_limit THEN Tail(t) ELSE t

PushLow(trace, flag) ==
    LET t == Append(trace, flag)
    IN  IF Len(t) > low_recovery_cycle_limit THEN Tail(t) ELSE t

\* over one full cycle, from the state at its start to the state at its end:
\* the confidence gained is below the threshold and arousal did not fall
LowRecovery(prev, st) ==
    /\ st.confidence - prev.confidence < low_recovery_threshold
    /\ st.arousal >= prev.arousal

-----------------------------------------------------------------------------
(* Specification: a constructed regulator over a shared log *)

\* no PredictionEngine takes part
PredictionIdle ==
    /\ expected = << >>
    /\ p_in = << >>
    /\ p_out = << >>
    /\ p_before = << >>
    /\ p_prior = NoEvent

\* no BoundaryDetector takes part
BoundaryIdle ==
    /\ threshold = 0
    /\ hits = << >>
    /\ b_in = << >>
    /\ b_out = << >>
    /\ b_before = << >>
    /\ seen = << >>
    /\ detected = << >>

\* no analyzer has been called
AnalyzersIdle ==
    /\ h_snap = NoSnapshot
    /\ p_snap = NoSnapshot
    /\ analyzers = [health |-> {}, phase |-> {}]

\* no call on the store is being watched
MemoryIdle ==
    /\ m_call = NoCall
    /\ m_result = Returned(<< >>)

\* no IdentityStore takes part
IdentityIdle ==
    /\ id_file = NoFile
    /\ id_store = << >>
    /\ id_uuid = 0
    /\ id_call = NoCall
    /\ id_result = Returned(<< >>)

\* no PreferenceEngine takes part
PreferenceIdle ==
    /\ scores = << >>
    /\ lr = 0
    /\ f_in = << >>
    /\ f_out = << >>
    /\ f_before = << >>

\* no engine is followed over its calls
FeedIdle ==
    /\ engine = ""
    /\ fed = << >>
    /\ all_out = << >>

\* no World takes part
WorldIdle ==
    /\ world = NoWorld
    /\ w_action = NoEvent
    /\ w_events = << >>
    /\ w_before = NoAgent
    /\ bootstrap = NoBootstrap

\* The regulator that BackgroundCore(memory) is written to build: a
\* BackgroundState() whose cursor line 116 puts at the tail of the log.
\* (SpecBoot below runs the constructor as it is written.)
Init ==
    /\ rows \in PriorLogs
    /\ bg = "ready"
    /\ state = [BackgroundState EXCEPT !.last_seen_seq = last_seq(rows)]
    /\ emitted = << >>
    /\ new_count = -1
    /\ read_seqs = << >>
    /\ high_trace = << >>
    /\ low_trace = << >>
    /\ updates = 0
    /\ max_read = 0
    /\ ticks = 0
    /\ warmup \in Warmups
    /\ boot_seq = last_seq(rows)
    /\ PredictionIdle
    /\ BoundaryIdle
    /\ AnalyzersIdle
    /\ MemoryIdle
    /\ IdentityIdle
    /\ WorldIdle
    /\ PreferenceIdle
    /\ FeedIdle

\* memory.append_many(events) by the world / bootstrap / user
AppendBatch(b) ==
    /\ bg = "ready"
    /\ Compacted
    /\ Unread + Len(b) <= MaxUnread
    /\ InWarmup => b = Hot /\ state.cycles > 0 /\ Unread < cycle_event_threshold
    /\ rows' = append_many(rows, b)
    /\ UNCHANGED <<bg, state, emitted, new_count, read_seqs, high_trace, low_trace, updates, max_read, ticks, warmup, boot_seq>>
    /\ UNCHANGED <<predVars, boundVars, anaVars, logVars, idVars, worldVars, prefVars, feedVars>>

\* BackgroundCore.step()
Step ==
    /\ bg = "ready"
    /\ Compacted
    /\ IF 0 < Unread /\ Unread < cycle_event_threshold
       THEN ticks < MaxTicks /\ ~InWarmup
       ELSE state.cycles < warmup + MaxCycles
    /\ \E r \in {step(state, rows)} :
           /\ state' = r.state
           /\ rows' = r.rows
           /\ emitted' = r.emitted
           /\ new_count' = Len(r.new_events)
           /\ read_seqs' = [i \in 1..Len(r.new_events) |-> r.new_events[i].seq]
           /\ high_trace' = IF IsFullCycle(r.emitted)
                            THEN Push(high_trace, r.state.arousal >= high_arousal_threshold)
                            ELSE high_trace
           /\ low_trace' = IF IsFullCycle(r.emitted)
                           THEN PushLow(low_trace, LowRecovery(state, r.state))
                           ELSE low_trace
           /\ updates' = updates + Len(SelectSeq(r.emitted, LAMBDA e : e.name = "state_update"))
           /\ max_read' = IF r.new_events = << >> THEN max_read
                           ELSE Max(max_read, r.new_events[Len(r.new_events)].seq)
           /\ ticks' = IF IsFullCycle(r.emitted) THEN ticks ELSE ticks + 1
    /\ UNCHANGED <<bg, warmup, boot_seq>>
    /\ UNCHANGED <<predVars, boundVars, anaVars, logVars, idVars, worldVars, prefVars, feedVars>>

\* the window moves on: rows behind the cursor leave the model
Forget ==
    /\ bg = "ready"
    /\ ~Compacted
    /\ rows' = Compact(rows, state.last_seen_seq)
    /\ UNCHANGED <<bg, state, emitted, new_count, read_seqs, high_trace, low_trace, updates, max_read, ticks, warmup, boot_seq>>
    /\ UNCHANGED <<predVars, boundVars, anaVars, logVars, idVars, worldVars, prefVars, feedVars>>

Next ==
    \/ \E b \in Batches : AppendBatch(b)
    \/ Step
    \/ Forget

Spec == Init /\ [][Next]_vars

-----------------------------------------------------------------------------
(* Specification: constructing a regulator over a log, as __init__ is written *)

InitBoot ==
    /\ rows = << >>
    /\ bg = "none"
    /\ state = None
    /\ emitted = << >>
    /\ new_count = -1
    /\ read_seqs = << >>
    /\ high_trace = << >>
    /\ low_trace = << >>
    /\ updates = 0
    /\ max_read = 0
    /\ ticks = 0
    /\ warmup = 0
    /\ boot_seq = 0
    /\ PredictionIdle
    /\ BoundaryIdle
    /\ AnalyzersIdle
    /\ MemoryIdle
    /\ IdentityIdle
    /\ WorldIdle
    /\ PreferenceIdle
    /\ FeedIdle

\* an earlier run writes to the log
WritePrior(b) ==
    /\ bg = "none"
    /\ Len(rows) + Len(b) <= MaxPrior
    /\ rows' = append_many(rows, b)
    /\ UNCHANGED <<bg, state, emitted, new_count, read_seqs, high_trace, low_trace, updates, max_read, ticks, warmup, boot_seq>>
    /\ UNCHANGED <<predVars, boundVars, anaVars, logVars, idVars, worldVars, prefVars, feedVars>>

\* BackgroundCore.__init__(memory): memory and cfg are stored; then line 116
\* evaluates memory.last_seq() and assigns it to self.state.last_seen_seq, but
\* nothing has assigned self.state: the constructor raises and there is no
\* regulator.  (Line 116 also ends in an unmatched ")", so the module does not
\* compile and the constructor cannot even be reached: no reading of the lines
\* yields a regulator.)
Construct ==
    /\ bg = "none"
    /\ bg' = "raised"
    /\ boot_seq' = last_seq(rows)
    /\ UNCHANGED <<rows, state, emitted, new_count, read_seqs, high_trace, low_trace, updates, max_read, ticks, warmup>>
    /\ UNCHANGED <<predVars, boundVars, anaVars, logVars, idVars, worldVars, prefVars, feedVars>>

NextBoot ==
    \/ \E b \in Batches \cup {MoveOk} : WritePrior(b)
    \/ Construct

SpecBoot == InitBoot /\ [][NextBoot]_vars

-----------------------------------------------------------------------------
(* a7do/cognition/prediction.py: PredictionEngine *)

\* payload.get(k, default)
Get(payload, k, default) == IF k \in DOMAIN payload THEN payload[k] ELSE default

Abs(x) == IF x < 0 THEN 0 - x ELSE x

\* mutant of _expect_from_action: an unknown action expects no displacement
_expect_from_action_still(e) ==
    [k \in {"dx", "dy"} |-> IF e.name = "move" THEN Get(e.payload, k, 0) ELSE 0]

_expect_from_action(e) ==
    IF e.name = "move"
    THEN [k \in {"dx", "dy"} |-> Get(e.payload, k, 0)]
    ELSE [k \in {} |-> 0]

\* mutant of _compute_error: the differences are summed with their signs
RECURSIVE SignedErrorOver(_, _, _)
SignedErrorOver(keys, exp, payload) ==
    IF keys = {} THEN 0
    ELSE LET k == CHOOSE x \in keys : TRUE
         IN  (exp[k] - Get(payload, k, 0)) + SignedErrorOver(keys \ {k}, exp, payload)

_compute_error_signed(exp, outc) == SignedErrorOver(DOMAIN exp, exp, outc.payload)

\* the loop of _compute_error over the keys of the expectation
RECURSIVE ErrorOver(_, _, _)
ErrorOver(keys, exp, payload) ==
    IF keys = {} THEN 0
    ELSE LET k == CHOOSE x \in keys : TRUE
         IN  Abs(exp[k] - Get(payload, k, 0)) + ErrorOver(keys \ {k}, exp, payload)

_compute_error(exp, outc) == ErrorOver(DOMAIN exp, exp, outc.payload)

\* mutant of observe_event: a resolved expectation stays pending
observe_event_sticky(pending, e) ==
    IF e.type = "action"
    THEN [expected |-> << _expect_from_action(e) >>, emitted |-> << >>]
    ELSE IF e.type = "outcome" /\ pending # << >>
    THEN LET error == _compute_error(pending[1], e)
             pe == internal("prediction", "prediction_error",
                       [error |-> error, expected |-> pending[1], observed |-> e.payload],
                       Max(0, One - Min(One, error)))
             ec == internal("prediction", "expectation_confirmed",
                       [expected |-> pending[1], observed |-> e.payload],
                       One)
         IN  [expected |-> pending,
              emitted |-> IF error < Milli(100) THEN <<pe, ec>> ELSE <<pe>>]
    ELSE [expected |-> pending, emitted |-> << >>]

\* mutant of observe_event: the first unresolved Action keeps the expectation
observe_event_first_wins(pending, e) ==
    IF e.type = "action"
    THEN [expected |-> IF pending # << >> THEN pending ELSE << _expect_from_action(e) >>, emitted |-> << >>]
    ELSE IF e.type = "outcome" /\ pending # << >>
    THEN LET error == _compute_error(pending[1], e)
             pe == internal("prediction", "prediction_error",
                       [error |-> error, expected |-> pending[1], observed |-> e.payload],
                       Max(0, One - Min(One, error)))
             ec == internal("prediction", "expectation_confirmed",
                       [expected |-> pending[1], observed |-> e.payload],
                       One)
         IN  [expected |-> << >>,
              emitted |-> IF error < Milli(100) THEN <<pe, ec>> ELSE <<pe>>]
    ELSE [expected |-> pending, emitted |-> << >>]

\* mutant of observe_event: an Outcome that no Action announced is resolved
\* against an empty expectation
observe_event_unasked(pending, e) ==
    IF e.type = "action"
    THEN [expected |-> << _expect_from_action(e) >>, emitted |-> << >>]
    ELSE IF e.type = "outcome"
    THEN LET exp == IF pending # << >> THEN pending[1] ELSE [k \in {} |-> 0]
             error == _compute_error(exp, e)
             pe == internal("prediction", "prediction_error",
                       [error |-> error, expected |-> exp, observed |-> e.payload],
                       Max(0, One - Min(One, error)))
             ec == internal("prediction", "expectation_confirmed",
                       [expected |-> exp, observed |-> e.payload],
                       One)
         IN  [expected |-> << >>,
              emitted |-> IF error < Milli(100) THEN <<pe, ec>> ELSE <<pe>>]
    ELSE [expected |-> pending, emitted |-> << >>]

\* the body of observe()'s loop for one event: the pending expectation
\* afterwards and the events appended to emitted
observe_event(pending, e) ==
    IF e.type = "action"
    THEN [expected |-> << _expect_from_action(e) >>, emitted |-> << >>]
    ELSE IF e.type = "outcome" /\ pending # << >>
    THEN LET error == _compute_error(pending[1], e)
             pe == internal("prediction", "prediction_error",
                       [error |-> error, expected |-> pending[1], observed |-> e.payload],
                       Max(0, One - Min(One, error)))
             ec == internal("prediction", "expectation_confirmed",
                       [expected |-> pending[1], observed |-> e.payload],
                       One)
         IN  [expected |-> << >>,
              emitted |-> IF error < Milli(100) THEN <<pe, ec>> ELSE <<pe>>]
    ELSE [expected |-> pending, emitted |-> << >>]

\* mutant of observe: every call starts without an expectation, the one a
\* previous call left is dropped
RECURSIVE observe_from(_, _)
observe_from(pending, events) ==
    IF events = << >>
    THEN [expected |-> pending, emitted |-> << >>]
    ELSE Bind(observe_event(pending, Head(events)), LAMBDA head :
         Bind(observe_from(head.expected, Tail(events)), LAMBDA rest :
             [expected |-> rest.expected, emitted |-> head.emitted \o rest.emitted]))

observe_forgetful(pending, events) == observe_from(<< >>, events)

\* observe(events): one pass over the events
RECURSIVE observe(_, _)
observe(pending, events) ==
    IF events = << >>
    THEN [expected |-> pending, emitted |-> << >>]
    ELSE LET head == observe_event(pending, Head(events))
             rest == observe(head.expected, Tail(events))
         IN  [expected |-> rest.expected, emitted |-> head.emitted \o rest.emitted]

-----------------------------------------------------------------------------
(* Specification: a PredictionEngine fed with events *)

\* what the engine is fed: moves, another action, outcomes that report a
\* displacement (exact, a little off, or with fields missing), an observation
PEvents ==
    { action("user", "move", [dx |-> One, dy |-> 0]),
      action("user", "move", [dy |-> One]),
      action("user", "wait", [n |-> 1]),
      outcome("world", "moved", [dx |-> One - Milli(50), dy |-> 0]),
      outcome("world", "moved", [dx |-> One - Milli(100), dy |-> 0]),
      outcome("world", "move_ok", [ok |-> "True"]),
      observation("world", "position", [x |-> 3, y |-> 2]) }

PBatches == UNION {[1..n -> PEvents] : n \in 1..MaxObserve}

InitPred ==
    /\ rows = << >>
    /\ bg = "none"
    /\ state = None
    /\ emitted = << >>
    /\ new_count = -1
    /\ read_seqs = << >>
    /\ high_trace = << >>
    /\ low_trace = << >>
    /\ updates = 0
    /\ max_read = 0
    /\ ticks = 0
    /\ warmup = 0
    /\ boot_seq = 0
    /\ PredictionIdle
    /\ BoundaryIdle
    /\ AnalyzersIdle
    /\ MemoryIdle
    /\ IdentityIdle
    /\ WorldIdle
    /\ PreferenceIdle
    /\ FeedIdle

\* the last Action or Outcome of events, else the one remembered
LastRelevant(prior, events) ==
    LET idx == {i \in DOMAIN events : events[i].type \in {"action", "outcome"}}
    IN  IF idx = {} THEN prior
        ELSE events[CHOOSE i \in idx : \A j \in idx : j <= i]

\* PredictionEngine.observe(events)
Observe(events) ==
    /\ \E r \in {observe(expected, events)} :
           /\ expected' = r.expected
           /\ p_out' = r.emitted
    /\ p_in' = events
    /\ p_before' = expected
    /\ p_prior' = LastRelevant(p_prior, p_in)
    /\ UNCHANGED <<coreVars, boundVars, anaVars, logVars, idVars, worldVars, prefVars, feedVars>>

NextPred == \E events \in PBatches : Observe(events)

SpecPred == InitPred /\ [][NextPred]_vars

-----------------------------------------------------------------------------
(* shared/health.py: HealthAnalyzer *)

\* the number of events of type t (the counting generators and comprehensions)
CountType(events, t) == Cardinality({i \in DOMAIN events : events[i].type = t})

HealthFields == {"arousal", "confidence", "confidence_floor", "uncertainty", "curiosity"}

\* mutant of _latest_internal_state: any Internal event that carries a state counts
_latest_internal_state_any(events) ==
    LET idx == {i \in DOMAIN events : events[i].type = "internal"}
    IN  IF idx = {}
        THEN [k \in HealthFields |-> NoFloat]
        ELSE LET st == Get(events[CHOOSE i \in idx : \A j \in idx : j <= i].payload,
                           "state", << >>)
             IN  [k \in HealthFields |-> Get(st, k, NoFloat)]

\* mutant of _latest_internal_state: the last Internal event that carries a
\* state counts, a light tick as well as a state_update
_latest_internal_state_snapshot(events) ==
    LET idx == {i \in DOMAIN events :
                   events[i].type = "internal" /\ "state" \in DOMAIN events[i].payload}
    IN  IF idx = {}
        THEN [k \in HealthFields |-> NoFloat]
        ELSE LET st == Get(events[CHOOSE i \in idx : \A j \in idx : j <= i].payload,
                           "state", << >>)
             IN  [k \in HealthFields |-> Get(st, k, NoFloat)]

\* the state of the last Internal state_update in the window; a Python None
\* is NoFloat
_latest_internal_state(events) ==
    LET idx == {i \in DOMAIN events :
                   events[i].type = "internal" /\ events[i].name = "state_update"}
    IN  IF idx = {}
        THEN [k \in HealthFields |-> NoFloat]
        ELSE LET st == Get(events[CHOOSE i \in idx : \A j \in idx : j <= i].payload,
                           "state", << >>)
             IN  [k \in HealthFields |-> Get(st, k, NoFloat)]

_compute_zeno_risk(events, arousal, confidence) ==
    IF arousal = NoFloat \/ confidence = NoFloat THEN 0
    ELSE IF CountType(events, "internal") < 5 THEN 0
    ELSE LET density == Min(One, Ratio(CountType(events, "internal"),
                                       Max(1, Len(events))))
             risk == IF arousal > Milli(800) /\ confidence < Milli(250)
                     THEN Milli(500) ELSE 0
         IN  Min(One, risk + density \div 2)

_compute_burnout_risk(arousal, confidence, confidence_floor) ==
    IF arousal = NoFloat \/ confidence = NoFloat \/ confidence_floor = NoFloat THEN 0
    ELSE Min(One,
             (IF arousal > Milli(850) THEN Milli(400) ELSE 0)
           + (IF confidence < confidence_floor + Milli(50) THEN Milli(400) ELSE 0)
           + (IF arousal > Milli(900) /\ confidence < Milli(200) THEN Milli(200) ELSE 0))

_compute_stagnation_risk(events, curiosity) ==
    IF curiosity = NoFloat THEN 0
    ELSE IF /\ CountType(events, "observation") + CountType(events, "action") = 0
            /\ curiosity > Milli(600)
         THEN Min(One, curiosity)
         ELSE 0

\* HealthAnalyzer.analyze(events): the HealthSnapshot
health_analyze(events) ==
    Bind(_latest_internal_state(events), LAMBDA internal_state :
    Bind(_compute_zeno_risk(events, internal_state.arousal, internal_state.confidence),
         LAMBDA zeno :
    Bind(_compute_burnout_risk(internal_state.arousal, internal_state.confidence,
                               internal_state.confidence_floor), LAMBDA burnout :
    Bind(_compute_stagnation_risk(events, internal_state.curiosity), LAMBDA stagnation :
        [event_count |-> Len(events),
         arousal |-> internal_state.arousal,
         confidence |-> internal_state.confidence,
         confidence_floor |-> internal_state.confidence_floor,
         uncertainty |-> internal_state.uncertainty,
         curiosity |-> internal_state.curiosity,
         zeno_risk |-> zeno,
         burnout_risk |-> burnout,
         stagnation_risk |-> stagnation,
         notes |-> (IF zeno > Milli(700) THEN <<"elevated_zeno_risk">> ELSE << >>)
                \o (IF burnout > Milli(700) THEN <<"elevated_burnout_risk">> ELSE << >>)
                \o (IF stagnation > Milli(700) THEN <<"elevated_stagnation_risk">>
                                               ELSE << >>)]))))

-----------------------------------------------------------------------------
(* sled/phase/core.py: PhaseAnalyzer *)

\* the loop of _compute_clustering from the i-th event on
RECURSIVE ClusteringLoop(_, _, _, _)
ClusteringLoop(events, i, current_run, internal_runs) ==
    IF i > Len(events)
    THEN IF current_run >= 2 THEN internal_runs + 1 ELSE internal_runs
    ELSE IF events[i].type = "internal"
         THEN Bind(current_run + 1, LAMBDA run :
                  ClusteringLoop(events, i + 1, run, internal_runs))
         ELSE Bind(IF current_run >= 2 THEN internal_runs + 1 ELSE internal_runs,
                   LAMBDA runs : ClusteringLoop(events, i + 1, 0, runs))

\* min(1.0, internal_runs / max(1, len(events) / 5))
_compute_clustering(events) ==
    IF Len(events) < 5 THEN 0
    ELSE Min(One, Ratio(5 * ClusteringLoop(events, 1, 0, 0), Max(5, Len(events))))

\* the loop of _compute_volatility from the i-th event on (i >= 2: the first
\* event only sets last_type)
RECURSIVE VolatilityLoop(_, _, _)
VolatilityLoop(events, i, flips) ==
    IF i > Len(events) THEN flips
    ELSE Bind(IF events[i].type # events[i - 1].type THEN flips + 1 ELSE flips,
              LAMBDA f : VolatilityLoop(events, i + 1, f))

_compute_volatility(events) ==
    IF Len(events) < 6 THEN 0
    ELSE Min(One, Ratio(VolatilityLoop(events, 2, 0), Max(1, Len(events) - 1)))

_compute_coherence(internal_density, volatility) ==
    Max(0, Min(One, One - (6 * volatility) \div 10 - (4 * internal_density) \div 10))

\* mutant of phase_analyze: the crowding test runs after the volatility test
phase_analyze_crowding_late(events) ==
    IF Len(events) = 0
    THEN [event_count |-> 0,
          internal_density |-> 0, action_density |-> 0, observation_density |-> 0,
          clustering |-> 0, volatility |-> 0, coherence |-> One,
          phase_state |-> "stagnant",
          notes |-> <<"no_events">>]
    ELSE
    Bind(Len(events), LAMBDA n :
    Bind(Ratio(CountType(events, "internal"), n), LAMBDA internal_density :
    Bind(Ratio(CountType(events, "action"), n), LAMBDA action_density :
    Bind(Ratio(CountType(events, "observation"), n), LAMBDA observation_density :
    Bind(_compute_clustering(events), LAMBDA clustering :
    Bind(_compute_volatility(events), LAMBDA volatility :
    Bind(_compute_coherence(internal_density, volatility), LAMBDA coherence :
    Bind(IF volatility > Milli(700)
         THEN "transition" ELSE "stable", LAMBDA phase_state1 :
    Bind(IF internal_density > Milli(550) /\ clustering > Milli(600)
         THEN "crowding" ELSE phase_state1, LAMBDA phase_state2 :
    Bind(IF action_density < Milli(50) /\ observation_density < Milli(50)
         THEN "stagnant" ELSE phase_state2, LAMBDA phase_state :
        [event_count |-> n,
         internal_density |-> internal_density,
         action_density |-> action_density,
         observation_density |-> observation_density,
         clustering |-> clustering,
         volatility |-> volatility,
         coherence |-> coherence,
         phase_state |-> phase_state,
         notes |-> (IF internal_density > Milli(550) /\ clustering > Milli(600)
                    THEN <<"internal_crowding">> ELSE << >>)
                \o (IF volatility > Milli(700) THEN <<"high_volatility">> ELSE << >>)
                \o (IF action_density < Milli(50) /\ observation_density < Milli(50)
                    THEN <<"low_external_activity">> ELSE << >>)
                \o (IF coherence < Milli(300) THEN <<"low_coherence">> ELSE << >>)]))))))))))

\* PhaseAnalyzer.analyze(events): the PhaseSnapshot
phase_analyze(events) ==
    IF Len(events) = 0
    THEN [event_count |-> 0,
          internal_density |-> 0, action_density |-> 0, observation_density |-> 0,
          clustering |-> 0, volatility |-> 0, coherence |-> One,
          phase_state |-> "stagnant",
          notes |-> <<"no_events">>]
    ELSE
    Bind(Len(events), LAMBDA n :
    Bind(Ratio(CountType(events, "internal"), n), LAMBDA internal_density :
    Bind(Ratio(CountType(events, "action"), n), LAMBDA action_density :
    Bind(Ratio(CountType(events, "observation"), n), LAMBDA observation_density :
    Bind(_compute_clustering(events), LAMBDA clustering :
    Bind(_compute_volatility(events), LAMBDA volatility :
    Bind(_compute_coherence(internal_density, volatility), LAMBDA coherence :
    Bind(IF internal_density > Milli(550) /\ clustering > Milli(600)
         THEN "crowding" ELSE "stable", LAMBDA phase_state1 :
    Bind(IF volatility > Milli(700)
         THEN "transition" ELSE phase_state1, LAMBDA phase_state2 :
    Bind(IF action_density < Milli(50) /\ observation_density < Milli(50)
         THEN "stagnant" ELSE phase_state2, LAMBDA phase_state :
        [event_count |-> n,
         internal_density |-> internal_density,
         action_density |-> action_density,
         observation_density |-> observation_density,
         clustering |-> clustering,
         volatility |-> volatility,
         coherence |-> coherence,
         phase_state |-> phase_state,
         notes |-> (IF internal_density > Milli(550) /\ clustering > Milli(600)
                    THEN <<"internal_crowding">> ELSE << >>)
                \o (IF volatility > Milli(700) THEN <<"high_volatility">> ELSE << >>)
                \o (IF action_density < Milli(50) /\ observation_density < Milli(50)
                    THEN <<"low_external_activity">> ELSE << >>)
                \o (IF coherence < Milli(300) THEN <<"low_coherence">> ELSE << >>)]))))))))))

-----------------------------------------------------------------------------
(* a7do/cognition/boundary.py: BoundaryDetector *)

\* int(v): truncation toward zero
int(v) == IF v >= 0 THEN v \div One ELSE 0 - ((0 - v) \div One)

\* self.state.hits.get(key, 0)
HitsGet(h, key) == IF key \in DOMAIN h THEN h[key] ELSE 0

\* mutant of boundary_observe_event: every hit from the threshold on is reported
boundary_observe_event_from(h, t, e) ==
    IF e.type # "internal" \/ e.name # "prediction_error"
    THEN [hits |-> h, emitted |-> << >>]
    ELSE LET observed == Get(e.payload, "observed", << >>)
             pos == Get(observed, "position", PyNone)
         IN  IF pos.py \notin {"list", "tuple"} \/ pos.items = << >>
             THEN [hits |-> h, emitted |-> << >>]
             ELSE LET key == << int(pos.items[1]), int(pos.items[2]) >>
                      n == HitsGet(h, key) + 1
                  IN  [hits |-> [kk \in DOMAIN h \cup {key} |->
                                    IF kk = key THEN n ELSE h[kk]],
                       emitted |->
                          IF n >= t
                          THEN << internal("boundary", "boundary_detected",
                                      [position |-> [x |-> key[1], y |-> key[2]],
                                       hits |-> n],
                                      One) >>
                          ELSE << >>]

\* the body of BoundaryDetector.observe()'s loop for one event: the hits
\* afterwards and the events appended to emitted
boundary_observe_event(h, t, e) ==
    IF e.type # "internal" \/ e.name # "prediction_error"
    THEN [hits |-> h, emitted |-> << >>]
    ELSE LET observed == Get(e.payload, "observed", << >>)
             pos == Get(observed, "position", PyNone)
         IN  IF pos.py \notin {"list", "tuple"} \/ pos.items = << >>
             THEN [hits |-> h, emitted |-> << >>]
             ELSE LET key == << int(pos.items[1]), int(pos.items[2]) >>
                      n == HitsGet(h, key) + 1
                  IN  [hits |-> [kk \in DOMAIN h \cup {key} |->
                                    IF kk = key THEN n ELSE h[kk]],
                       emitted |->
                          IF n = t
                          THEN << internal("boundary", "boundary_detected",
                                      [position |-> [x |-> key[1], y |-> key[2]],
                                       hits |-> n],
                                      One) >>
                          ELSE << >>]

\* BoundaryDetector.observe(events): one pass over the events
RECURSIVE boundary_observe(_, _, _)
boundary_observe(h, t, events) ==
    IF events = << >>
    THEN [hits |-> h, emitted |-> << >>]
    ELSE Bind(boundary_observe_event(h, t, Head(events)), LAMBDA head :
         Bind(boundary_observe(head.hits, t, Tail(events)), LAMBDA rest :
             [hits |-> rest.hits, emitted |-> head.emitted \o rest.emitted]))

-----------------------------------------------------------------------------
(* Specification: a BoundaryDetector fed with events *)

\* a prediction_error as the PredictionEngine builds it around an observed payload
PredictionError(observed) ==
    internal("prediction", "prediction_error",
        [error |-> One, expected |-> [dx |-> One, dy |-> 0], observed |-> observed],
        0)

\* what the detector is fed: prediction errors at (3,4), at (3, 4.5), at
\* (1,1) and without a position; a confirmation and an Outcome that carry
\* a position
BEvents ==
    { PredictionError([ok |-> "False", position |-> PyList(<<3 * One, 4 * One>>)]),
      PredictionError([ok |-> "False", position |-> PyList(<<3 * One, 4 * One + Milli(500)>>)]),
      PredictionError([ok |-> "False", position |-> PyList(<<One, One>>)]),
      PredictionError([ok |-> "False"]),
      internal("prediction", "expectation_confirmed",
          [expected |-> [dx |-> One, dy |-> 0],
           observed |-> [position |-> PyList(<<3 * One, 4 * One>>)]],
          One),
      outcome("world", "move_blocked",
          [ok |-> "False", position |-> PyList(<<3 * One, 4 * One>>)]) }

BBatches == UNION {[1..n -> BEvents] : n \in 1..MaxBatch}

\* the positions that occur in BEvents
BKeys == { <<3, 4>>, <<1, 1>> }

NoPosition == << >>

\* observer: the position a prediction error carries, NoPosition for any other event
PositionOf(e) ==
    IF /\ e.type = "internal" /\ e.name = "prediction_error"
       /\ "position" \in DOMAIN e.payload.observed
       /\ e.payload.observed.position.py \in {"list", "tuple"}
    THEN << int(e.payload.observed.position.items[1]),
            int(e.payload.observed.position.items[2]) >>
    ELSE NoPosition

\* observer: the prediction errors at position k among events
CountAt(events, k) == Cardinality({i \in DOMAIN events : PositionOf(events[i]) = k})

\* no regulator takes part
CoreIdle ==
    /\ rows = << >>
    /\ bg = "none"
    /\ state = None
    /\ emitted = << >>
    /\ new_count = -1
    /\ read_seqs = << >>
    /\ high_trace = << >>
    /\ low_trace = << >>
    /\ updates = 0
    /\ max_read = 0
    /\ ticks = 0
    /\ warmup = 0
    /\ boot_seq = 0

\* BoundaryDetector(threshold)
InitBound ==
    /\ CoreIdle
    /\ PredictionIdle
    /\ AnalyzersIdle
    /\ MemoryIdle
    /\ IdentityIdle
    /\ WorldIdle
    /\ PreferenceIdle
    /\ FeedIdle
    /\ threshold \in 1..MaxThreshold
    /\ hits = << >>
    /\ b_in = << >>
    /\ b_out = << >>
    /\ b_before = << >>
    /\ seen = [k \in BKeys |-> 0]
    /\ detected = [k \in BKeys |-> 0]

\* BoundaryDetector.observe(events)
BoundaryObserve(events) ==
    /\ \A k \in BKeys : seen[k] + CountAt(events, k) <= MaxHits
    /\ \E r \in {boundary_observe(hits, threshold, events)} :
           /\ hits' = r.hits
           /\ b_out' = r.emitted
           /\ detected' = [k \in BKeys |->
                 detected[k] + Cardinality({j \in DOMAIN r.emitted :
                     /\ r.emitted[j].name = "boundary_detected"
                     /\ r.emitted[j].payload.position = [x |-> k[1], y |-> k[2]]})]
    /\ b_in' = events
    /\ b_before' = hits
    /\ seen' = [k \in BKeys |-> seen[k] + CountAt(events, k)]
    /\ UNCHANGED threshold
    /\ UNCHANGED <<coreVars, predVars, anaVars, logVars, idVars, worldVars, prefVars, feedVars>>

NextBound == \E events \in BBatches : BoundaryObserve(events)

SpecBound == InitBound /\ [][NextBound]_vars

-----------------------------------------------------------------------------
(* a7do/cognition/preference.py: PreferenceEngine *)

\* _key_from_event returning None
NoKey == ""

\* a * b for b a multiple of 0.05 (all the errors and rates that occur are)
Times(a, b) == (a \div 20) * (b \div (One \div 20))

\* PreferenceEngine._key_from_event(e)
_key_from_event(e) ==
    LET obs == Get(e.payload, "observed", << >>)
        pos == Get(obs, "position", PyNone)
    IN  IF pos.py \in {"list", "tuple"} /\ pos.items # << >>
        THEN "pos:" \o ToString(int(pos.items[1])) \o "," \o ToString(int(pos.items[2]))
        ELSE NoKey

\* self.state.scores.get(key, 0.0)
ScoresGet(sc, key) == IF key \in DOMAIN sc THEN sc[key] ELSE 0

\* self.state.scores[key] = new
ScoresSet(sc, key, new) ==
    [k \in DOMAIN sc \cup {key} |-> IF k = key THEN new ELSE sc[k]]

\* mutant of preference_observe_event: a prediction error lowers the score
\* by the learning rate, whatever the error
preference_observe_event_flat(sc, rate, e) ==
    IF e.type # "internal"
    THEN [scores |-> sc, emitted |-> << >>]
    ELSE IF e.name = "expectation_confirmed"
    THEN Bind(_key_from_event(e), LAMBDA key :
         IF key = NoKey
         THEN [scores |-> sc, emitted |-> << >>]
         ELSE Bind(ScoresGet(sc, key) + rate, LAMBDA new :
              [scores |-> ScoresSet(sc, key, new),
               emitted |-> << internal("preference", "preference_updated",
                                 [key |-> key, delta |-> rate, score |-> new],
                                 Min(One, new)) >>]))
    ELSE IF e.name = "prediction_error"
    THEN Bind(Get(e.payload, "error", 0), LAMBDA error :
         IF error < Milli(300)
         THEN [scores |-> sc, emitted |-> << >>]
         ELSE Bind(_key_from_event(e), LAMBDA key :
              IF key = NoKey
              THEN [scores |-> sc, emitted |-> << >>]
              ELSE Bind(ScoresGet(sc, key) - rate, LAMBDA new :
                   [scores |-> ScoresSet(sc, key, new),
                    emitted |-> << internal("preference", "preference_updated",
                                      [key |-> key,
                                       delta |-> 0 - rate,
                                       score |-> new],
                                      Max(0, One - error)) >>])))
    ELSE [scores |-> sc, emitted |-> << >>]

\* the body of PreferenceEngine.observe()'s loop for one event: the scores
\* afterwards and the events appended to emitted
preference_observe_event(sc, rate, e) ==
    IF e.type # "internal"
    THEN [scores |-> sc, emitted |-> << >>]
    ELSE IF e.name = "expectation_confirmed"
    THEN Bind(_key_from_event(e), LAMBDA key :
         IF key = NoKey
         THEN [scores |-> sc, emitted |-> << >>]
         ELSE Bind(ScoresGet(sc, key) + rate, LAMBDA new :
              [scores |-> ScoresSet(sc, key, new),
               emitted |-> << internal("preference", "preference_updated",
                                 [key |-> key, delta |-> rate, score |-> new],
                                 Min(One, new)) >>]))
    ELSE IF e.name = "prediction_error"
    THEN Bind(Get(e.payload, "error", 0), LAMBDA error :
         IF error < Milli(300)
         THEN [scores |-> sc, emitted |-> << >>]
         ELSE Bind(_key_from_event(e), LAMBDA key :
              IF key = NoKey
              THEN [scores |-> sc, emitted |-> << >>]
              ELSE Bind(ScoresGet(sc, key) - Times(rate, error), LAMBDA new :
                   [scores |-> ScoresSet(sc, key, new),
                    emitted |-> << internal("preference", "preference_updated",
                                      [key |-> key,
                                       delta |-> 0 - Times(rate, error),
                                       score |-> new],
                                      Max(0, One - error)) >>])))
    ELSE [scores |-> sc, emitted |-> << >>]

\* PreferenceEngine.observe(events): one pass over the events
RECURSIVE preference_observe(_, _, _)
preference_observe(sc, rate, events) ==
    IF events = << >>
    THEN [scores |-> sc, emitted |-> << >>]
    ELSE Bind(preference_observe_event(sc, rate, Head(events)), LAMBDA head :
         Bind(preference_observe(head.scores, rate, Tail(events)), LAMBDA rest :
             [scores |-> rest.scores, emitted |-> head.emitted \o rest.emitted]))

-----------------------------------------------------------------------------
(* Specification: the analyzers read a log that other components write *)

\* what arrives in the log: the state_update of a regulator's first cycle, a
\* light tick, a move, its outcome, an observation
AEvents ==
    { _cycle(BackgroundState, << >>, TRUE).emitted[1],
      _light_tick(BackgroundState, 1).emitted[1],
      action("user", "move", [dx |-> 1, dy |-> 0]),
      outcome("world", "move_ok", [ok |-> "True"]),
      observation("world", "position", [x |-> 3, y |-> 2]) }

\* the log when the run begins: empty, or five rows of an earlier exchange
\* that begin with the state_update of a regulator's second cycle
APriorLogs ==
    { << >>,
      append_many(<< >>,
          << _cycle(_cycle(BackgroundState, << >>, TRUE).state, << >>, TRUE).emitted[1],
             _light_tick(BackgroundState, 1).emitted[1],
             action("user", "move", [dx |-> 1, dy |-> 0]),
             _light_tick(BackgroundState, 1).emitted[1],
             outcome("world", "move_ok", [ok |-> "True"]) >>) }

InitAna ==
    /\ rows \in APriorLogs
    /\ bg = "ready"
    /\ state = [BackgroundState EXCEPT !.last_seen_seq = last_seq(rows)]
    /\ emitted = << >>
    /\ new_count = -1
    /\ read_seqs = << >>
    /\ high_trace = << >>
    /\ low_trace = << >>
    /\ updates = 0
    /\ max_read = 0
    /\ ticks = 0
    /\ warmup = 0
    /\ boot_seq = last_seq(rows)
    /\ PredictionIdle
    /\ BoundaryIdle
    /\ AnalyzersIdle
    /\ MemoryIdle
    /\ IdentityIdle
    /\ WorldIdle
    /\ PreferenceIdle
    /\ FeedIdle

\* a writer appends an event; what the analyzers returned is now out of date
Arrive(e) ==
    /\ last_seq(rows) - boot_seq < MaxWindow
    /\ rows' = append_many(rows, <<e>>)
    /\ h_snap' = NoSnapshot
    /\ p_snap' = NoSnapshot
    /\ UNCHANGED <<bg, state, emitted, new_count, read_seqs, high_trace, low_trace, updates, max_read, ticks, warmup, boot_seq>>
    /\ UNCHANGED analyzers
    /\ UNCHANGED <<predVars, boundVars, logVars, idVars, worldVars, prefVars, feedVars>>

\* mutant of AnalyzeHealth: the analyzer records its finding in the log
AnalyzeHealth_logging ==
    /\ h_snap' = health_analyze(recent(rows, 200))
    /\ rows' = append_many(rows,
                  << internal("health", "analysis",
                         [event_count |-> Len(recent(rows, 200))], NoFloat) >>)
    /\ UNCHANGED <<bg, state, emitted, new_count, read_seqs, high_trace, low_trace, updates, max_read, ticks, warmup, boot_seq>>
    /\ UNCHANGED <<p_snap, analyzers>>
    /\ UNCHANGED <<predVars, boundVars, logVars, idVars, worldVars, prefVars, feedVars>>

\* health.analyze(memory.recent(200))
AnalyzeHealth ==
    /\ h_snap' = health_analyze(recent(rows, 200))
    /\ UNCHANGED coreVars
    /\ UNCHANGED <<p_snap, analyzers>>
    /\ UNCHANGED <<predVars, boundVars, logVars, idVars, worldVars, prefVars, feedVars>>

\* phase.analyze(memory.recent(200))
AnalyzePhase ==
    /\ p_snap' = phase_analyze(recent(rows, 200))
    /\ UNCHANGED coreVars
    /\ UNCHANGED <<h_snap, analyzers>>
    /\ UNCHANGED <<predVars, boundVars, logVars, idVars, worldVars, prefVars, feedVars>>

NextAna ==
    \/ \E e \in AEvents : Arrive(e)
    \/ AnalyzeHealth
    \/ AnalyzePhase

SpecAna == InitAna /\ [][NextAna]_vars

-----------------------------------------------------------------------------
(* Specification: the store under every kind of call *)

\* an event built with an explicit id
WithId(e, id) ==
    [id |-> id, type |-> e.type, source |-> e.source, name |-> e.name,
     payload |-> e.payload, confidence |-> e.confidence]

\* what the writers hold: three events, the third one as World._apply_move
\* builds it at the edge of the grid, a fourth that reuses the id of the
\* first, and two whose payloads json.dumps rejects
LEvents ==
    { WithId(action("user", "move", [dx |-> 1, dy |-> 0]), "e1"),
      WithId(outcome("world", "move_ok", [ok |-> "True"]), "e2"),
      WithId(observation("world", "boundary_contact",
                 [from |-> PyTuple(<<0, 0>>), attempt |-> PyTuple(<<0 - 1, 0>>)]), "e3"),
      WithId(observation("user", "utterance", [text |-> "again"]), "e1"),
      WithId(observation("user", "utterance", NotJson), "e4"),
      WithId(observation("user", "utterance", Circular), "e5") }

LBatches == UNION {[1..n -> LEvents] : n \in 0..2}

InitLog ==
    /\ rows = << >>
    /\ bg = "ready"
    /\ state = BackgroundState
    /\ emitted = << >>
    /\ new_count = -1
    /\ read_seqs = << >>
    /\ high_trace = << >>
    /\ low_trace = << >>
    /\ updates = 0
    /\ max_read = 0
    /\ ticks = 0
    /\ warmup = 0
    /\ boot_seq = 0
    /\ PredictionIdle
    /\ BoundaryIdle
    /\ AnalyzersIdle
    /\ MemoryIdle
    /\ IdentityIdle
    /\ WorldIdle
    /\ PreferenceIdle
    /\ FeedIdle

\* what the analyzers returned stays valid while the log is what it was
Outdate ==
    /\ h_snap' = IF rows' = rows THEN h_snap ELSE NoSnapshot
    /\ p_snap' = IF rows' = rows THEN p_snap ELSE NoSnapshot
    /\ UNCHANGED analyzers

\* memory.append(e)
LogAppend(e) ==
    /\ Len(rows) < MaxLog
    /\ \E r \in {append(rows, e)} :
           /\ rows' = r.rows
           /\ m_result' = r.result
    /\ m_call' = [op |-> "append", arg |-> <<e>>]
    /\ Outdate
    /\ UNCHANGED <<bg, state, emitted, new_count, read_seqs, high_trace, low_trace, updates, max_read, ticks, warmup, boot_seq>>
    /\ UNCHANGED <<predVars, boundVars, idVars, worldVars, prefVars, feedVars>>

\* memory.append_many(b)
LogAppendMany(b) ==
    /\ Len(rows) < MaxLog
    /\ rows' = append_many(rows, b)
    /\ m_result' = append_many_result(rows, b)
    /\ m_call' = [op |-> "append_many", arg |-> b]
    /\ Outdate
    /\ UNCHANGED <<bg, state, emitted, new_count, read_seqs, high_trace, low_trace, updates, max_read, ticks, warmup, boot_seq>>
    /\ UNCHANGED <<predVars, boundVars, idVars, worldVars, prefVars, feedVars>>

\* memory.delete_all_events()
LogDeleteAll ==
    /\ \E r \in {delete_all_events(rows)} :
           /\ rows' = r.rows
           /\ m_result' = r.result
    /\ m_call' = [op |-> "delete_all_events", arg |-> << >>]
    /\ Outdate
    /\ UNCHANGED <<bg, state, emitted, new_count, read_seqs, high_trace, low_trace, updates, max_read, ticks, warmup, boot_seq>>
    /\ UNCHANGED <<predVars, boundVars, idVars, worldVars, prefVars, feedVars>>

\* list(memory.iter_since(n))
LogIterSince(n) ==
    /\ m_result' = Returned(iter_since(rows, n))
    /\ m_call' = [op |-> "iter_since", arg |-> n]
    /\ UNCHANGED coreVars
    /\ UNCHANGED <<predVars, boundVars, anaVars, idVars, worldVars, prefVars, feedVars>>

\* memory.last_seq()
LogLastSeq ==
    /\ m_result' = Returned(last_seq(rows))
    /\ m_call' = [op |-> "last_seq", arg |-> << >>]
    /\ UNCHANGED coreVars
    /\ UNCHANGED <<predVars, boundVars, anaVars, idVars, worldVars, prefVars, feedVars>>

\* bg.step() of the regulator that shares the log
LogStep ==
    /\ bg = "ready"
    /\ state.cycles + ticks < MaxLogSteps
    /\ \E r \in {step(state, rows)} :
           /\ state' = r.state
           /\ rows' = r.rows
           /\ emitted' = r.emitted
           /\ new_count' = Len(r.new_events)
           /\ read_seqs' = [i \in 1..Len(r.new_events) |-> r.new_events[i].seq]
           /\ ticks' = IF IsFullCycle(r.emitted) THEN ticks ELSE ticks + 1
           /\ m_result' = Returned(r.emitted)
    /\ m_call' = [op |-> "step", arg |-> << >>]
    /\ Outdate
    /\ UNCHANGED <<bg, high_trace, low_trace, updates, max_read, warmup, boot_seq>>
    /\ UNCHANGED <<predVars, boundVars, idVars, worldVars, prefVars, feedVars>>

NextLog ==
    \/ \E e \in LEvents : LogAppend(e)
    \/ \E b \in LBatches : LogAppendMany(b)
    \/ LogDeleteAll
    \/ \E n \in 0..(last_seq(rows) + 1) : LogIterSince(n)
    \/ LogLastSeq
    \/ LogStep
    \/ AnalyzeHealth
    \/ AnalyzePhase

SpecLog == InitLog /\ [][NextLog]_vars

-----------------------------------------------------------------------------
(* a7do/state/identity.py: IdentityStore *)

\* self._identity is None
NoIdentity == [none |-> TRUE]

\* an IdentityStore object that has not been constructed
NoStore == [constructed |-> FALSE]

\* IdentityRecord(...)
IdentityRecord(identity_id, genesis_id, creation_tag, incarnation, continuity_version, notes) ==
    [identity_id |-> identity_id, genesis_id |-> genesis_id,
     creation_tag |-> creation_tag, incarnation |-> incarnation,
     continuity_version |-> continuity_version, notes |-> notes]

\* _write(rec): the content of the file after json.dump(asdict(rec)) and
\* os.replace(tmp, path)
_write(rec) ==
    [exists |-> TRUE,
     data |-> [identity_id |-> rec.identity_id, genesis_id |-> rec.genesis_id,
               creation_tag |-> rec.creation_tag, incarnation |-> rec.incarnation,
               continuity_version |-> rec.continuity_version, notes |-> rec.notes]]

\* _read(): the record built from the file's JSON
_read(file) ==
    IdentityRecord(file.data.identity_id, file.data.genesis_id,
                   file.data.creation_tag, file.data.incarnation,
                   file.data.continuity_version, file.data.notes)

\* mutant of _load_or_create: a genesis whether or not the file exists
_load_or_create_anew(self, file, uuid) ==
    Bind(IdentityRecord(uuid + 2, uuid + 1, self.creation_tag, 1,
                        self.continuity_version, "genesis"), LAMBDA rec :
        [store |-> [self EXCEPT !.identity = rec],
         file |-> _write(rec),
         uuid |-> uuid + 2])

\* _load_or_create(): the store, the file and the uuid4 count afterwards;
\* the k-th uuid4() value is k
_load_or_create(self, file, uuid) ==
    IF file.exists
    THEN [store |-> [self EXCEPT !.identity = _read(file)], file |-> file, uuid |-> uuid]
    ELSE Bind(IdentityRecord(uuid + 2, uuid + 1, self.creation_tag, 1,
                             self.continuity_version, "genesis"), LAMBDA rec :
             [store |-> [self EXCEPT !.identity = rec],
              file |-> _write(rec),
              uuid |-> uuid + 2])

\* IdentityStore.__init__(path, continuity_version, creation_tag)
identity_store_init(file, uuid, continuity_version, creation_tag) ==
    _load_or_create([constructed |-> TRUE,
                     continuity_version |-> continuity_version,
                     creation_tag |-> creation_tag,
                     identity |-> NoIdentity], file, uuid)

\* IdentityStore.get()
identity_get(self) ==
    IF self.identity = NoIdentity THEN Raised("RuntimeError")
    ELSE Returned(self.identity)

\* IdentityStore.rebuild_incarnation(note)
rebuild_incarnation(self, file, note) ==
    IF self.identity = NoIdentity
    THEN [store |-> self, file |-> file, result |-> Raised("RuntimeError")]
    ELSE Bind(IdentityRecord(self.identity.identity_id, self.identity.genesis_id,
                             self.identity.creation_tag, self.identity.incarnation + 1,
                             self.continuity_version, note), LAMBDA new_rec :
             [store |-> [self EXCEPT !.identity = new_rec],
              file |-> _write(new_rec),
              result |-> Returned(new_rec)])

\* mutant of destroy_identity: the confirmation is not looked at
destroy_identity_unconfirmed(self, file, confirm) ==
    [store |-> [self EXCEPT !.identity = NoIdentity],
     file |-> NoFile,
     result |-> Returned(<< >>)]

\* IdentityStore.destroy_identity(confirm)
destroy_identity(self, file, confirm) ==
    IF ~confirm
    THEN [store |-> self, file |-> file, result |-> Raised("RuntimeError")]
    ELSE [store |-> [self EXCEPT !.identity = NoIdentity],
          file |-> NoFile,
          result |-> Returned(<< >>)]

-----------------------------------------------------------------------------
(* Specification: IdentityStore objects on one path *)

\* the objects: one constructed first, one constructed on the same path again
Stores == {"first", "again"}

\* the creation_tag arguments given: the default and another
Tags == {"a7do", "probe"}

InitId ==
    /\ CoreIdle
    /\ PredictionIdle
    /\ BoundaryIdle
    /\ AnalyzersIdle
    /\ MemoryIdle
    /\ WorldIdle
    /\ PreferenceIdle
    /\ FeedIdle
    /\ id_file = NoFile
    /\ id_store = [s \in Stores |-> NoStore]
    /\ id_uuid = 0
    /\ id_call = NoCall
    /\ id_result = Returned(<< >>)

\* s = IdentityStore(path, creation_tag = tag)
IdConstruct(s, tag) ==
    /\ id_file.exists \/ id_uuid + 2 <= MaxUuid
    /\ \E r \in {identity_store_init(id_file, id_uuid, 1, tag)} :
           /\ id_store' = [id_store EXCEPT ![s] = r.store]
           /\ id_file' = r.file
           /\ id_uuid' = r.uuid
    /\ id_call' = [op |-> "__init__", arg |-> <<s, tag>>]
    /\ id_result' = Returned(<< >>)
    /\ UNCHANGED <<coreVars, predVars, boundVars, anaVars, logVars, worldVars, prefVars, feedVars>>

\* s.get()
IdGet(s) ==
    /\ id_store[s].constructed
    /\ id_call' = [op |-> "get", arg |-> <<s>>]
    /\ id_result' = identity_get(id_store[s])
    /\ UNCHANGED <<id_file, id_store, id_uuid>>
    /\ UNCHANGED <<coreVars, predVars, boundVars, anaVars, logVars, worldVars, prefVars, feedVars>>

\* s.rebuild_incarnation(note)
IdRebuild(s, note) ==
    /\ id_store[s].constructed
    /\ id_store[s].identity # NoIdentity => id_store[s].identity.incarnation < MaxIncarnation
    /\ \E r \in {rebuild_incarnation(id_store[s], id_file, note)} :
           /\ id_store' = [id_store EXCEPT ![s] = r.store]
           /\ id_file' = r.file
           /\ id_result' = r.result
    /\ id_call' = [op |-> "rebuild_incarnation", arg |-> <<s, note>>]
    /\ UNCHANGED id_uuid
    /\ UNCHANGED <<coreVars, predVars, boundVars, anaVars, logVars, worldVars, prefVars, feedVars>>

\* s.destroy_identity(confirm)
IdDestroy(s, confirm) ==
    /\ id_store[s].constructed
    /\ \E r \in {destroy_identity(id_store[s], id_file, confirm)} :
           /\ id_store' = [id_store EXCEPT ![s] = r.store]
           /\ id_file' = r.file
           /\ id_result' = r.result
    /\ id_call' = [op |-> "destroy_identity", arg |-> <<s, confirm>>]
    /\ UNCHANGED id_uuid
    /\ UNCHANGED <<coreVars, predVars, boundVars, anaVars, logVars, worldVars, prefVars, feedVars>>

NextId ==
    \/ \E s \in Stores : \E tag \in Tags : IdConstruct(s, tag)
    \/ \E s \in Stores : IdGet(s)
    \/ \E s \in Stores : \E note \in {None, "rebuilt"} : IdRebuild(s, note)
    \/ \E s \in Stores : \E confirm \in BOOLEAN : IdDestroy(s, confirm)

SpecId == InitId /\ [][NextId]_vars

-----------------------------------------------------------------------------
(* world/world.py: World *)

\* an event built with parent_id = ...
WithParent(e, parent_id) ==
    [parent_id |-> parent_id, type |-> e.type, source |-> e.source, name |-> e.name,
     payload |-> e.payload, confidence |-> e.confidence]

\* World(width, height)
World(width, height) ==
    [width |-> width, height |-> height, objects |-> << >>, agent |-> NoAgent]

\* World.add_object(x, y, solid); the object's id is a uuid4 nothing reads back
add_object(w, x, y, solid) ==
    [w EXCEPT !.objects =
        [p \in DOMAIN w.objects \cup {<<x, y>>} |->
            IF p = <<x, y>> THEN [id |-> "object", solid |-> solid] ELSE w.objects[p]]]

\* World.spawn_agent(x, y)
spawn_agent(w, x, y) ==
    [world |-> [w EXCEPT !.agent = [spawned |-> TRUE, x |-> x, y |-> y]],
     events |-> << observation("world", "agent_spawned", [x |-> x, y |-> y]) >>]

\* World._in_bounds(x, y)
_in_bounds(w, x, y) == 0 <= x /\ x < w.width /\ 0 <= y /\ y < w.height

\* mutant of _apply_move: an object blocks whether solid or not
_apply_move_any_object(w, action_event) ==
    LET dx == Get(action_event.payload, "dx", 0)
        dy == Get(action_event.payload, "dy", 0)
        target_x == w.agent.x + dx
        target_y == w.agent.y + dy
    IN  IF ~_in_bounds(w, target_x, target_y)
        THEN [world |-> w,
              events |->
                << observation("world", "boundary_contact",
                       [from |-> PyTuple(<<w.agent.x, w.agent.y>>),
                        attempt |-> PyTuple(<<target_x, target_y>>)]),
                   WithParent(outcome("world", "move_blocked",
                                  [ok |-> "False", reason |-> "out_of_bounds"]),
                              action_event.id) >>]
        ELSE IF <<target_x, target_y>> \in DOMAIN w.objects
        THEN [world |-> w,
              events |->
                << observation("world", "collision",
                       [object_id |-> w.objects[<<target_x, target_y>>].id,
                        at |-> PyTuple(<<target_x, target_y>>)]),
                   WithParent(outcome("world", "move_blocked",
                                  [ok |-> "False", reason |-> "collision"]),
                              action_event.id) >>]
        ELSE [world |-> [w EXCEPT !.agent.x = target_x, !.agent.y = target_y],
              events |->
                << observation("world", "position", [x |-> target_x, y |-> target_y]),
                   WithParent(outcome("world", "move_ok", [ok |-> "True"]),
                              action_event.id) >>]

\* World._apply_move(action_event): the world afterwards and the events
\* returned; dx and dy are whole numbers, int() leaves them
_apply_move(w, action_event) ==
    LET dx == Get(action_event.payload, "dx", 0)
        dy == Get(action_event.payload, "dy", 0)
        target_x == w.agent.x + dx
        target_y == w.agent.y + dy
    IN  IF ~_in_bounds(w, target_x, target_y)
        THEN [world |-> w,
              events |->
                << observation("world", "boundary_contact",
                       [from |-> PyTuple(<<w.agent.x, w.agent.y>>),
                        attempt |-> PyTuple(<<target_x, target_y>>)]),
                   WithParent(outcome("world", "move_blocked",
                                  [ok |-> "False", reason |-> "out_of_bounds"]),
                              action_event.id) >>]
        ELSE IF /\ <<target_x, target_y>> \in DOMAIN w.objects
                /\ w.objects[<<target_x, target_y>>].solid
        THEN [world |-> w,
              events |->
                << observation("world", "collision",
                       [object_id |-> w.objects[<<target_x, target_y>>].id,
                        at |-> PyTuple(<<target_x, target_y>>)]),
                   WithParent(outcome("world", "move_blocked",
                                  [ok |-> "False", reason |-> "collision"]),
                              action_event.id) >>]
        ELSE [world |-> [w EXCEPT !.agent.x = target_x, !.agent.y = target_y],
              events |->
                << observation("world", "position", [x |-> target_x, y |-> target_y]),
                   WithParent(outcome("world", "move_ok", [ok |-> "True"]),
                              action_event.id) >>]

\* World.step(action_event)
world_step(w, action_event) ==
    IF w.agent = NoAgent THEN [world |-> w, events |-> << >>]
    ELSE IF action_event.name = "move" THEN _apply_move(w, action_event)
    ELSE [world |-> w,
          events |->
            << WithParent(outcome("world", "unknown_action",
                              [ok |-> "False", reason |-> "unrecognized_action"]),
                          action_event.id) >>]

-----------------------------------------------------------------------------
(* a7do/core/agent.py: A7DOAgent *)

\* last_move is None
NoMove == << >>

\* AgentState()
AgentState == [last_action_failed |-> FALSE, last_move |-> NoMove, steps_since_action |-> 0]

\* A7DOAgent._recent_events(n)
_recent_events(tbl, n) == iter_since(tbl, Max(0, last_seq(tbl) - n))

\* A7DOAgent._latest_internal_state(recent): << >> stands for None and for {}
agent_latest_internal_state(recent_rows) ==
    LET found == {i \in DOMAIN recent_rows :
                    /\ recent_rows[i].event.type = "internal"
                    /\ recent_rows[i].event.name = "state_update"}
    IN  IF found = {} THEN << >>
        ELSE Get(recent_rows[CHOOSE i \in found : \A j \in found : j <= i].event.payload,
                 "state", << >>)

\* A7DOAgent.decide(): every Action it may return (NoMove for None) with the
\* AgentState that goes with it; random.choice is any of the moves
decide(ag, tbl) ==
    LET istate == agent_latest_internal_state(_recent_events(tbl, 20))
        moves == {<<0, 0 - 1>>, <<0, 1>>, <<0 - 1, 0>>, <<1, 0>>}
                    \ (IF ag.last_action_failed THEN {ag.last_move} ELSE {})
    IN  IF istate = << >> THEN {[move |-> NoMove, agent |-> ag]}
        ELSE IF Get(istate, "arousal", 0) > Milli(750)
        THEN {[move |-> NoMove,
               agent |-> [ag EXCEPT !.steps_since_action = @ + 1]]}
        ELSE IF /\ Get(istate, "curiosity", 0) < Milli(150)
                /\ Get(istate, "confidence", 0) < Milli(200)
        THEN {[move |-> NoMove,
               agent |-> [ag EXCEPT !.steps_since_action = @ + 1]]}
        ELSE {[move |-> m,
               agent |-> [ag EXCEPT !.last_move = m, !.steps_since_action = 0]]
                 : m \in moves}

\* A7DOAgent.observe_outcomes()
observe_outcomes(ag, tbl) ==
    LET recent_rows == _recent_events(tbl, 10)
        found == {i \in DOMAIN recent_rows :
                    /\ recent_rows[i].event.type = "outcome"
                    /\ "parent_id" \in DOMAIN recent_rows[i].event}
    IN  IF found = {} THEN ag
        ELSE LET ok == PayloadOk(recent_rows[CHOOSE i \in found : \A j \in found : j <= i].event)
             IN  IF ok = "False" THEN [ag EXCEPT !.last_action_failed = TRUE]
                 ELSE IF ok = "True" THEN [ag EXCEPT !.last_action_failed = FALSE]
                 ELSE ag

-----------------------------------------------------------------------------
(* Specification: a SystemBootstrap and the World it drives *)
(* bootstrap/system.py, with the regulator that BackgroundCore(memory) is  *)
(* written to build                                                        *)

\* the grid of the runs explored
GridWidth == 3
GridHeight == 2

\* where the agent is spawned: a corner, and the cell left of the far corner
SpawnAt == {<<0, 0>>, <<1, 1>>}

\* the objects added to the world after construction: none, or a solid one
\* and one that is not
ObjectSets == {<< >>, <<[x |-> 1, y |-> 0, solid |-> TRUE], [x |-> 0, y |-> 1, solid |-> FALSE]>>}

RECURSIVE AddObjects(_, _)
AddObjects(w, objs) ==
    IF objs = << >> THEN w
    ELSE AddObjects(add_object(w, Head(objs).x, Head(objs).y, Head(objs).solid), Tail(objs))

\* the (dx, dy) given to apply_move
Deltas == {<<1, 0>>, <<0 - 1, 0>>, <<0, 1>>, <<0, 0 - 1>>, <<2, 0>>}

\* Actions given to World.step directly: a move without dy, and no move
DirectActions ==
    { WithId(action("probe", "move", [dx |-> 1]), 0),
      WithId(action("probe", "jump", [dx |-> 1, dy |-> 0]), 0) }

\* the "boot" event of SystemBootstrap.__init__
BootEvent(identity) ==
    system_event("bootstrap", "boot",
        [identity_id |-> identity.identity_id,
         genesis_id |-> identity.genesis_id,
         incarnation |-> identity.incarnation])

\* SystemBootstrap(world_size, spawn_at, enable_autonomy) on a fresh
\* identity path and a fresh memory path, then world.add_object for each
\* object
InitWorld ==
    /\ PredictionIdle
    /\ BoundaryIdle
    /\ PreferenceIdle
    /\ FeedIdle
    /\ AnalyzersIdle
    /\ MemoryIdle
    /\ \E ident \in {identity_store_init(NoFile, 0, 1, "a7do")} :
           /\ id_file = ident.file
           /\ id_store = [s \in Stores |-> IF s = "first" THEN ident.store ELSE NoStore]
           /\ id_uuid = ident.uuid
           /\ id_call = [op |-> "__init__", arg |-> <<"first", "a7do">>]
           /\ id_result = Returned(<< >>)
           /\ \E at \in SpawnAt : \E objs \in ObjectSets :
              \E sp \in {spawn_agent(World(GridWidth, GridHeight), at[1], at[2])} :
                  /\ world = AddObjects(sp.world, objs)
                  /\ rows = append(append_many(<< >>, sp.events),
                                   BootEvent(ident.store.identity)).rows
    /\ w_action = NoEvent
    /\ w_events = << >>
    /\ w_before = NoAgent
    /\ bootstrap \in {[constructed |-> TRUE, enable_autonomy |-> a, agent |-> AgentState]
                        : a \in BOOLEAN}
    /\ bg = "ready"
    /\ state = BackgroundState
    /\ emitted = << >>
    /\ new_count = -1
    /\ read_seqs = << >>
    /\ high_trace = << >>
    /\ low_trace = << >>
    /\ updates = 0
    /\ max_read = 0
    /\ ticks = 0
    /\ warmup = 0
    /\ boot_seq = 0

\* what one bg.step() leaves in the regulator's variables
Regulated(r) ==
    /\ state' = r.state
    /\ rows' = r.rows
    /\ emitted' = r.emitted
    /\ new_count' = Len(r.new_events)
    /\ read_seqs' = [i \in 1..Len(r.new_events) |-> r.new_events[i].seq]
    /\ ticks' = IF IsFullCycle(r.emitted) THEN ticks ELSE ticks + 1

\* SystemBootstrap.apply_move(dx, dy)
ApplyMove(dx, dy) ==
    /\ last_seq(rows) < MaxBootRows
    /\ \E act \in {WithId(action("user", "move", [dx |-> dx, dy |-> dy]), id_uuid + 1)} :
       \E t1 \in {append(rows, act).rows} :
       \E ws \in {world_step(world, act)} :
       \E t2 \in {append_many(t1, ws.events)} :
       \E r \in {step(state, t2)} :
           /\ Regulated(r)
           /\ world' = ws.world
           /\ w_action' = act
           /\ w_events' = ws.events
           /\ w_before' = world.agent
           /\ bootstrap' = [bootstrap EXCEPT !.agent = observe_outcomes(@, r.rows)]
    /\ id_uuid' = id_uuid + 1
    /\ UNCHANGED <<bg, high_trace, low_trace, updates, max_read, warmup, boot_seq>>
    /\ UNCHANGED <<id_file, id_store, id_call, id_result>>
    /\ UNCHANGED <<predVars, boundVars, anaVars, logVars, prefVars, feedVars>>

\* SystemBootstrap.step(user_text): the part that always runs, then the
\* part that runs when the agent decides a move
SysStep(user_text) ==
    /\ last_seq(rows) < MaxBootRows
    /\ \E t1 \in {IF user_text # ""
                  THEN append(rows, observation("user", "utterance", [text |-> user_text])).rows
                  ELSE rows} :
       \E r1 \in {step(state, t1)} :
       \E ag \in {observe_outcomes(bootstrap.agent, r1.rows)} :
       \E d \in (IF bootstrap.enable_autonomy THEN decide(ag, r1.rows)
                 ELSE {[move |-> NoMove, agent |-> ag]}) :
           IF d.move = NoMove
           THEN /\ Regulated(r1)
                /\ bootstrap' = [bootstrap EXCEPT !.agent = d.agent]
                /\ w_action' = NoEvent
                /\ w_events' = << >>
                /\ w_before' = world.agent
                /\ UNCHANGED <<world, id_uuid>>
           ELSE \E act \in {WithId(action("a7do", "move",
                                       [dx |-> d.move[1], dy |-> d.move[2]]), id_uuid + 1)} :
                \E t2 \in {append(r1.rows, act).rows} :
                \E ws \in {world_step(world, act)} :
                \E t3 \in {append_many(t2, ws.events)} :
                \E r2 \in {step(r1.state, t3)} :
                    /\ Regulated(r2)
                    /\ bootstrap' = [bootstrap EXCEPT !.agent = d.agent]
                    /\ world' = ws.world
                    /\ w_action' = act
                    /\ w_events' = ws.events
                    /\ w_before' = world.agent
                    /\ id_uuid' = id_uuid + 1
    /\ UNCHANGED <<bg, high_trace, low_trace, updates, max_read, warmup, boot_seq>>
    /\ UNCHANGED <<id_file, id_store, id_call, id_result>>
    /\ UNCHANGED <<predVars, boundVars, anaVars, logVars, prefVars, feedVars>>

\* world.step(a), called on the World itself
WorldStep(a) ==
    /\ \E ws \in {world_step(world, a)} :
           /\ world' = ws.world
           /\ w_events' = ws.events
    /\ w_action' = a
    /\ w_before' = world.agent
    /\ UNCHANGED bootstrap
    /\ UNCHANGED <<coreVars, predVars, boundVars, anaVars, logVars, idVars, prefVars, feedVars>>

NextWorld ==
    \/ \E d \in Deltas : ApplyMove(d[1], d[2])
    \/ \E user_text \in {"", "hello"} : SysStep(user_text)
    \/ \E a \in DirectActions : WorldStep(a)

SpecWorld == InitWorld /\ [][NextWorld]_vars

-----------------------------------------------------------------------------
(* Specification: one experience cycle over a batch of mixed events *)

\* events whose payload is not the {"ok": bool} of a World outcome: an
\* Outcome without "ok", Outcomes whose "ok" is 1 and None, an Observation
\* and an Internal event that carry "ok"
OddEvents ==
    << outcome("probe", "move_done", [reason |-> "unknown"]),
       outcome("probe", "move_done", [ok |-> "1"]),
       outcome("probe", "move_done", [ok |-> None]),
       observation("probe", "status", [ok |-> "False"]),
       internal("probe", "status", [ok |-> "True"], NoFloat) >>

\* n copies of one event
Copies(n, e) == [i \in 1..n |-> e]

\* a batch: s successes, f failures, the chosen odd events, and move Actions
\* to make it at least cycle_event_threshold long
SignalBatch(s, f, odd) ==
    Bind(Copies(s, outcome("world", "move_ok", [ok |-> "True"]))
           \o SelectSeq(OddEvents, LAMBDA e : \E i \in odd : OddEvents[i] = e)
           \o Copies(f, outcome("world", "move_blocked",
                                [ok |-> "False", reason |-> "collision"])),
         LAMBDA b :
             b \o Copies(Max(0, cycle_event_threshold - Len(b)),
                         action("user", "move", [dx |-> 1, dy |-> 0])))

\* a regulator constructed over an empty log, and then a batch appended
InitSig ==
    /\ \E s \in 0..MaxOk : \E f \in 0..MaxOk : \E odd \in SUBSET DOMAIN OddEvents :
           rows = append_many(<< >>, SignalBatch(s, f, odd))
    /\ bg = "ready"
    /\ state = BackgroundState
    /\ emitted = << >>
    /\ new_count = -1
    /\ read_seqs = << >>
    /\ high_trace = << >>
    /\ low_trace = << >>
    /\ updates = 0
    /\ max_read = 0
    /\ ticks = 0
    /\ warmup = 0
    /\ boot_seq = 0
    /\ PredictionIdle
    /\ BoundaryIdle
    /\ AnalyzersIdle
    /\ MemoryIdle
    /\ IdentityIdle
    /\ WorldIdle
    /\ PreferenceIdle
    /\ FeedIdle

\* BackgroundCore.step(), the first one
SigStep ==
    /\ new_count = -1
    /\ \E r \in {step(state, rows)} :
           /\ state' = r.state
           /\ rows' = r.rows
           /\ emitted' = r.emitted
           /\ new_count' = Len(r.new_events)
           /\ read_seqs' = [i \in 1..Len(r.new_events) |-> r.new_events[i].seq]
           /\ updates' = updates + Len(SelectSeq(r.emitted, LAMBDA e : e.name = "state_update"))
           /\ max_read' = IF r.new_events = << >> THEN max_read
                           ELSE Max(max_read, r.new_events[Len(r.new_events)].seq)
    /\ UNCHANGED <<bg, high_trace, low_trace, ticks, warmup, boot_seq>>
    /\ UNCHANGED <<predVars, boundVars, anaVars, logVars, idVars, worldVars, prefVars, feedVars>>

NextSig == SigStep

SpecSig == InitSig /\ [][NextSig]_vars

-----------------------------------------------------------------------------
(* Specification: one engine, constructed and fed over several calls *)

\* a prediction_error with a given error around an observed payload
PredictionErrorOf(error, observed) ==
    internal("prediction", "prediction_error",
        [error |-> error, expected |-> [dx |-> One, dy |-> 0], observed |-> observed],
        Max(0, One - Min(One, error)))

\* an expectation_confirmed around an observed payload
Confirmed(observed) ==
    internal("prediction", "expectation_confirmed",
        [expected |-> [dx |-> One, dy |-> 0], observed |-> observed],
        One)

\* what a PreferenceEngine is fed: confirmations at (3, 4.5), given as a
\* tuple, and without a position; prediction errors of 1.0 at (3,4), of 0.3
\* at (1,1) and of 0.25 at (3,4); an Internal event of another name and an
\* Outcome that carry a position
FEvents ==
    { Confirmed([ok |-> "True", position |-> PyTuple(<<3 * One, 4 * One + Milli(500)>>)]),
      Confirmed([ok |-> "True"]),
      PredictionErrorOf(One, [ok |-> "False", position |-> PyList(<<3 * One, 4 * One>>)]),
      PredictionErrorOf(Milli(300), [ok |-> "False", position |-> PyList(<<One, One>>)]),
      PredictionErrorOf(Milli(250), [ok |-> "False", position |-> PyList(<<3 * One, 4 * One>>)]),
      internal("boundary", "boundary_detected",
          [observed |-> [position |-> PyList(<<3 * One, 4 * One>>)], hits |-> 2], One),
      outcome("world", "move_blocked",
          [ok |-> "False", observed |-> [position |-> PyList(<<3 * One, 4 * One>>)]]) }

\* the keys that occur in FEvents
FKeys == {"pos:3,4", "pos:1,1"}

Engines == {"prediction", "preference", "boundary"}

\* the events one engine may be given
Alphabet(eng) ==
    IF eng = "prediction" THEN PEvents
    ELSE IF eng = "preference" THEN FEvents
    ELSE BEvents

\* the batches of one call, when room more events may be given
Calls(eng, room) == UNION {[1..n -> Alphabet(eng)] : n \in 1..Min(MaxCall, room)}

\* PredictionEngine(), PreferenceEngine(learning_rate) or
\* BoundaryDetector(threshold)
InitFeed ==
    /\ CoreIdle
    /\ PredictionIdle
    /\ AnalyzersIdle
    /\ MemoryIdle
    /\ IdentityIdle
    /\ WorldIdle
    /\ engine \in Engines
    /\ fed = << >>
    /\ all_out = << >>
    /\ scores = << >>
    /\ lr \in (IF engine = "preference" THEN {Milli(50), Milli(100)} ELSE {0})
    /\ f_in = << >>
    /\ f_out = << >>
    /\ f_before = << >>
    /\ threshold \in (IF engine = "boundary" THEN 1..MaxThreshold ELSE {0})
    /\ hits = << >>
    /\ b_in = << >>
    /\ b_out = << >>
    /\ b_before = << >>
    /\ seen = [k \in BKeys |-> 0]
    /\ detected = [k \in BKeys |-> 0]

\* PredictionEngine.observe(events)
FeedPrediction(events) ==
    /\ engine = "prediction"
    /\ Len(fed) + Len(events) <= MaxFed
    /\ \E r \in {observe(expected, events)} :
           /\ expected' = r.expected
           /\ p_out' = r.emitted
           /\ all_out' = all_out \o r.emitted
    /\ p_in' = events
    /\ p_before' = expected
    /\ p_prior' = LastRelevant(p_prior, p_in)
    /\ fed' = fed \o events
    /\ UNCHANGED engine
    /\ UNCHANGED <<coreVars, boundVars, anaVars, logVars, idVars, worldVars, prefVars>>

\* PreferenceEngine.observe(events)
FeedPreference(events) ==
    /\ engine = "preference"
    /\ Len(fed) + Len(events) <= MaxFed
    /\ \E r \in {preference_observe(scores, lr, events)} :
           /\ scores' = r.scores
           /\ f_out' = r.emitted
           /\ all_out' = all_out \o r.emitted
    /\ f_in' = events
    /\ f_before' = scores
    /\ fed' = fed \o events
    /\ UNCHANGED <<lr, engine>>
    /\ UNCHANGED <<coreVars, predVars, boundVars, anaVars, logVars, idVars, worldVars>>

\* BoundaryDetector.observe(events)
FeedBoundary(events) ==
    /\ engine = "boundary"
    /\ Len(fed) + Len(events) <= MaxFed
    /\ \E r \in {boundary_observe(hits, threshold, events)} :
           /\ hits' = r.hits
           /\ b_out' = r.emitted
           /\ all_out' = all_out \o r.emitted
           /\ detected' = [k \in BKeys |->
                 detected[k] + Cardinality({j \in DOMAIN r.emitted :
                     /\ r.emitted[j].name = "boundary_detected"
                     /\ r.emitted[j].payload.position = [x |-> k[1], y |-> k[2]]})]
    /\ b_in' = events
    /\ b_before' = hits
    /\ seen' = [k \in BKeys |-> seen[k] + CountAt(events, k)]
    /\ fed' = fed \o events
    /\ UNCHANGED <<threshold, engine>>
    /\ UNCHANGED <<coreVars, predVars, anaVars, logVars, idVars, worldVars, prefVars>>

NextFeed ==
    \/ \E events \in Calls(engine, MaxFed - Len(fed)) : FeedPrediction(events)
    \/ \E events \in Calls(engine, MaxFed - Len(fed)) : FeedPreference(events)
    \/ \E events \in Calls(engine, MaxFed - Len(fed)) : FeedBoundary(events)

SpecFeed == InitFeed /\ [][NextFeed]_vars

-----------------------------------------------------------------------------
(* Observers used by the properties *)

\* which of the three cycle kinds produced the events a step() returned
Kind(evs) ==
    IF evs = << >> THEN "none"
    ELSE IF evs[1].name = "light_tick" THEN "light_tick"
    ELSE IF evs[1].payload.stagnation THEN "stagnation"
    ELSE "experience"

\* the rows of the table whose seq is greater than n
After(tbl, n) == {i \in DOMAIN tbl : tbl[i].seq > n}

HasEvent(evs, name) == \E i \in DOMAIN evs : evs[i].name = name

-----------------------------------------------------------------------------
(* C1: after any sequence of step() calls from the default initial state,  *)
(* every regulatory field is inside its declared range: arousal and        *)
(* confidence in [0.02, 1], confidence_floor in [0, 0.60], uncertainty and *)
(* curiosity in [0, 1], valence in [-1, 1].                                *)
C1_FieldsInRange ==
    bg = "ready" =>
        /\ Milli(20) <= state.arousal /\ state.arousal <= One
        /\ Milli(20) <= state.confidence /\ state.confidence <= One
        /\ 0 <= state.confidence_floor /\ state.confidence_floor <= Milli(600)
        /\ 0 <= state.uncertainty /\ state.uncertainty <= One
        /\ 0 <= state.curiosity /\ state.curiosity <= One
        /\ 0 - One <= state.valence /\ state.valence <= One

\* arousal sits on its lower bound after full cycles and light ticks have run,
\* and the last step would have taken it below without the clamp
C1_Witness ==
    /\ state.cycles > 0 /\ ticks > 0
    /\ state.arousal = Milli(20)
    /\ emitted # << >>
    /\ 0 - emitted[1].payload.delta.arousal < Milli(15)

(* C2: after every step(), of any of the three kinds, confidence >=        *)
(* confidence_floor, in the regulator state and in the state snapshot that *)
(* the emitted state_update / light_tick event carries.                    *)
C2_ConfidenceAboveFloor ==
    bg = "ready" =>
        /\ state.confidence >= state.confidence_floor
        /\ emitted # << >> =>
              emitted[1].payload.state.confidence
                  >= emitted[1].payload.state.confidence_floor

\* a light tick whose drift would have undershot a raised floor
C2_Witness ==
    /\ Kind(emitted) = "light_tick"
    /\ state.confidence = state.confidence_floor
    /\ state.confidence_floor > Milli(50)
    /\ 0 - emitted[1].payload.delta.confidence < Milli(5)

(* C3: each step() runs exactly one of three cycle kinds, chosen only by   *)
(* the number n of log rows with seq > last_seen_seq: an experience cycle  *)
(* iff n >= 10, a stagnation cycle iff n = 0, a light tick iff 1 <= n <= 9.*)
C3_CycleSelection ==
    [][ Step =>
          LET n == Cardinality(After(rows, state.last_seen_seq))
          IN  /\ Kind(emitted') \in {"experience", "stagnation", "light_tick"}
              /\ Kind(emitted') = "experience" <=> n >= 10
              /\ Kind(emitted') = "stagnation" <=> n = 0
              /\ Kind(emitted') = "light_tick" <=> (1 <= n /\ n <= 9) ]_vars

\* an experience cycle over exactly ten new rows, after a light tick over nine
C3_Witness ==
    /\ Kind(emitted) = "experience"
    /\ new_count = 10
    /\ ticks > 0

(* C4: a full cycle emits warning_high_arousal_persistence iff arousal     *)
(* (after that cycle's regulation and clamping) was >= 0.85 in that full   *)
(* cycle and in each of the 5 full cycles before it; the warning is        *)
(* emitted again in every following full cycle while arousal stays         *)
(* >= 0.85; the streak counter is 0 after a full cycle with arousal < 0.85.*)
C4_HighArousalWarning ==
    IsFullCycle(emitted) =>
        /\ HasEvent(emitted, "warning_high_arousal_persistence")
              <=> (Len(high_trace) = 6 /\ \A i \in 1..6 : high_trace[i])
        /\ ~high_trace[Len(high_trace)] => state.consecutive_high_arousal_cycles = 0

\* the warning fires for the sixth high cycle in a row, not having fired before
C4_Witness ==
    /\ IsFullCycle(emitted)
    /\ HasEvent(emitted, "warning_high_arousal_persistence")
    /\ state.consecutive_high_arousal_cycles = 6
    /\ state.cycles > 6

(* C5: confidence_floor does not decrease across step() calls unless a     *)
(* cycle explicitly reduces it to track a falling confidence (it is then   *)
(* equal to the confidence); once the floor has been raised above its      *)
(* initial value 0.05 it never returns to 0.05.                            *)
C5_FloorMonotone ==
    [][ /\ state'.confidence_floor < state.confidence_floor
              => state'.confidence_floor = state'.confidence
        /\ state.confidence_floor > Milli(50)
              => state'.confidence_floor # Milli(50) ]_vars

\* a raised floor, and a cycle in which the confidence fell onto it
C5_Witness ==
    /\ state.confidence_floor > Milli(50)
    /\ Kind(emitted) = "experience"
    /\ emitted[1].payload.delta.confidence < 0
    /\ state.confidence = state.confidence_floor

(* C6: last_seen_seq never decreases across step() calls; after each       *)
(* step() it equals the seq of the last row that step read from iter_since *)
(* (unchanged when it read none); it never exceeds the log's last_seq().   *)
C6_CursorAdvance ==
    [][ /\ state.last_seen_seq <= last_seq(rows)
        /\ state'.last_seen_seq >= state.last_seen_seq
        /\ state'.last_seen_seq <= last_seq(rows')
        /\ Step =>
             LET new == After(rows, state.last_seen_seq)
             IN  state'.last_seen_seq =
                   IF new = {} THEN state.last_seen_seq
                   ELSE rows[CHOOSE i \in new : \A j \in new : j <= i].seq ]_vars

\* the cursor moved onto the last row read, and the step's own emissions lie
\* beyond it
C6_Witness ==
    /\ new_count > 1
    /\ state.last_seen_seq = read_seqs[new_count]
    /\ state.last_seen_seq < last_seq(rows)
    /\ state.last_seen_seq > read_seqs[1]

(* C7: for every step(), the log after the call is the log before the call *)
(* followed by exactly the events that step() returned, in the returned    *)
(* order; nothing else is appended and no earlier row changes.             *)
C7_StepAppendsEmitted ==
    [][ Step =>
          /\ Len(rows') = Len(rows) + Len(emitted')
          /\ \A i \in DOMAIN rows : rows'[i] = rows[i]
          /\ \A j \in DOMAIN emitted' :
                /\ rows'[Len(rows) + j].event = emitted'[j]
                /\ rows'[Len(rows) + j].seq = last_seq(rows) + j ]_vars

\* a step that returned a state_update and a warning, both now at the tail
C7_Witness ==
    /\ Len(emitted) >= 2
    /\ Len(rows) >= new_count + Len(emitted)
    /\ rows[Len(rows)].event = emitted[Len(emitted)]
    /\ rows[Len(rows)].event.type = "system"
    /\ rows[Len(rows) - 1].event.name = "state_update"

(* C9: a regulator constructed over a log that already holds rows starts   *)
(* with the default state vector and last_seen_seq equal to the log's      *)
(* last_seq() at construction; no row appended before construction is ever *)
(* in the batch of any step(); a first step() with nothing appended since  *)
(* construction sees new_count = 0 and runs a stagnation cycle.            *)
C9_FreshAtTail ==
    /\ bg # "none" => bg = "ready"
    /\ bg = "ready" /\ new_count = -1
          => state = [BackgroundState EXCEPT !.last_seen_seq = boot_seq]
    /\ \A i \in DOMAIN read_seqs : read_seqs[i] > boot_seq
    /\ ( /\ bg = "ready"
         /\ state.cycles + ticks = 1
         /\ \E i \in DOMAIN rows : /\ rows[i].seq = boot_seq + 1
                                   /\ rows[i].event.source = "background_core" )
          => new_count = 0 /\ Kind(emitted) = "stagnation"

\* what observe() emitted while it processed the i-th event of the last call
EmittedAt(i) ==
    LET upto == observe(p_before, SubSeq(p_in, 1, i)).emitted
        sofar == observe(p_before, SubSeq(p_in, 1, i - 1)).emitted
    IN  SubSeq(upto, Len(sofar) + 1, Len(upto))

\* the Action or Outcome that came last before the i-th event of the last call
RelevantBefore(i) == LastRelevant(p_prior, SubSeq(p_in, 1, i - 1))

(* C10: for an Action named "move" with payload (dx,dy) followed by an     *)
(* Outcome with payload fields dx', dy' (a missing field counts as 0), the *)
(* engine emits exactly one prediction_error with error = |dx-dx'| +       *)
(* |dy-dy'| and confidence = max(0, 1 - min(1, error)), and an             *)
(* expectation_confirmed right after it iff error < 0.1.                   *)
C10_MoveResolution ==
    \A i \in DOMAIN p_in :
        LET a == RelevantBefore(i)
            o == p_in[i]
        IN  (o.type = "outcome" /\ a.type = "action" /\ a.name = "move") =>
              LET dx == Get(a.payload, "dx", 0) - Get(o.payload, "dx", 0)
                  dy == Get(a.payload, "dy", 0) - Get(o.payload, "dy", 0)
                  error == Abs(dx) + Abs(dy)
                  out == EmittedAt(i)
              IN  /\ Len(out) = IF error < Milli(100) THEN 2 ELSE 1
                  /\ out[1].name = "prediction_error"
                  /\ out[1].payload.error = error
                  /\ out[1].confidence = Max(0, One - Min(One, error))
                  /\ Len(out) = 2 => out[2].name = "expectation_confirmed"

\* a move by (1,0) answered by a reading of 0.95: an error of 0.05, confirmed;
\* the Action came in an earlier call than the Outcome
C10_Witness ==
    /\ Len(p_in) >= 1
    /\ p_in[1].type = "outcome"
    /\ p_prior.type = "action" /\ p_prior.name = "move"
    /\ Len(p_out) >= 2
    /\ p_out[1].name = "prediction_error"
    /\ p_out[1].payload.error = Milli(50)
    /\ p_out[1].confidence = One - Milli(50)
    /\ p_out[2].name = "expectation_confirmed"

\* state.expected after observe() has processed the first i events of the last call
ExpectedAt(i) == observe(p_before, SubSeq(p_in, 1, i)).expected

(* C11: the pending expectation is single-shot: an Outcome resolves and    *)
(* clears it, so an Outcome that arrives with no Action since the previous *)
(* Outcome (or before any Action at all) emits no event and leaves the     *)
(* engine state unchanged.                                                 *)
C11_SingleShot ==
    \A i \in DOMAIN p_in :
        p_in[i].type = "outcome" =>
            /\ ExpectedAt(i) = << >>
            /\ RelevantBefore(i).type # "action" =>
                  /\ EmittedAt(i) = << >>
                  /\ ExpectedAt(i - 1) = << >>

\* two Outcomes in one call after a move in an earlier one: the first is
\* resolved (error 0.1, one event), the second finds nothing pending
C11_Witness ==
    /\ Len(p_in) = 2
    /\ p_in[1].type = "outcome" /\ p_in[2].type = "outcome"
    /\ p_prior.type = "action"
    /\ p_before # << >>
    /\ Len(p_out) = 1
    /\ expected = << >>

(* C12: PredictionEngine holds at most one pending expectation: when two   *)
(* or more Action events arrive before an Outcome, no event is emitted for *)
(* the overwritten Actions and the Outcome is resolved only against the    *)
(* most recent Action's expectation.                                       *)
C12_LastActionWins ==
    /\ Len(expected) <= 1
    /\ \A i \in DOMAIN p_in :
          /\ p_in[i].type = "action" =>
                /\ EmittedAt(i) = << >>
                /\ ExpectedAt(i) = << _expect_from_action(p_in[i]) >>
          /\ (p_in[i].type = "outcome" /\ RelevantBefore(i).type = "action") =>
                /\ EmittedAt(i) # << >>
                /\ \A j \in DOMAIN EmittedAt(i) :
                      EmittedAt(i)[j].payload.expected
                          = _expect_from_action(RelevantBefore(i))

\* an Action arrives while the expectation of an earlier Action is pending;
\* the Outcome after it is resolved against the later Action
C12_Witness ==
    /\ Len(p_in) = 2
    /\ p_before # << >>
    /\ p_in[1].type = "action" /\ p_in[2].type = "outcome"
    /\ p_out # << >>
    /\ p_out[1].payload.expected # p_before[1]
    /\ p_out[1].payload.expected = _expect_from_action(p_in[1])

(* C13: an Action whose name is not "move" creates an empty (but pending)  *)
(* expectation, so the next Outcome, whatever its payload, yields a        *)
(* prediction_error with error 0 and therefore also an                     *)
(* expectation_confirmed event, and clears the expectation.                *)
C13_UnknownActionConfirms ==
    \A i \in DOMAIN p_in :
        /\ (p_in[i].type = "action" /\ p_in[i].name # "move") =>
              /\ Len(ExpectedAt(i)) = 1
              /\ DOMAIN ExpectedAt(i)[1] = {}
        /\ ( /\ p_in[i].type = "outcome"
             /\ RelevantBefore(i).type = "action"
             /\ RelevantBefore(i).name # "move" ) =>
              LET out == EmittedAt(i)
              IN  /\ Len(out) = 2
                  /\ out[1].name = "prediction_error"
                  /\ out[1].payload.error = 0
                  /\ out[1].confidence = One
                  /\ out[2].name = "expectation_confirmed"
                  /\ ExpectedAt(i) = << >>

\* a "wait" Action answered by an Outcome that reports a displacement
C13_Witness ==
    /\ Len(p_in) = 2
    /\ p_in[1].type = "action" /\ p_in[1].name = "wait"
    /\ p_in[2].type = "outcome" /\ "dx" \in DOMAIN p_in[2].payload
    /\ Len(p_out) = 2
    /\ p_out[1].payload.error = 0
    /\ p_out[2].name = "expectation_confirmed"
    /\ expected = << >>

\* what BoundaryDetector.observe() emitted while it processed the i-th event
\* of the last call
BoundaryEmittedAt(i) ==
    LET upto == boundary_observe(b_before, threshold, SubSeq(b_in, 1, i)).emitted
        sofar == boundary_observe(b_before, threshold, SubSeq(b_in, 1, i - 1)).emitted
    IN  SubSeq(upto, Len(sofar) + 1, Len(upto))

(* C14: for a BoundaryDetector with threshold t >= 1 and every position p, *)
(* over any sequence of observe() calls, the number of boundary_detected   *)
(* events emitted for p is 1 if at least t prediction_error events         *)
(* carrying observed position p have been seen and 0 otherwise; the event  *)
(* is emitted while processing the t-th such event and carries hits == t,  *)
(* and later events at p increment hits[p] without emitting.               *)
C14_BoundaryOnce ==
    threshold >= 1 =>
        /\ \A k \in BKeys :
              /\ detected[k] = IF seen[k] >= threshold THEN 1 ELSE 0
              /\ HitsGet(hits, k) = seen[k]
        /\ \A i \in DOMAIN b_in :
              LET k == PositionOf(b_in[i])
                  out == BoundaryEmittedAt(i)
              IN  IF /\ k # NoPosition
                     /\ (seen[k] - CountAt(b_in, k)) + CountAt(SubSeq(b_in, 1, i), k)
                            = threshold
                  THEN /\ Len(out) = 1
                       /\ out[1].name = "boundary_detected"
                       /\ out[1].payload.position = [x |-> k[1], y |-> k[2]]
                       /\ out[1].payload.hits = threshold
                  ELSE out = << >>

\* threshold 2: the third prediction error at (3,4) arrives in a call of its
\* own, is counted and reports nothing; the second one had been reported
C14_Witness ==
    /\ threshold = 2
    /\ Len(b_in) = 1 /\ PositionOf(b_in[1]) = <<3, 4>>
    /\ seen[<<3, 4>>] = 3
    /\ HitsGet(hits, <<3, 4>>) = 3
    /\ detected[<<3, 4>>] = 1
    /\ b_out = << >>

\* the window the analyzers are given
Window == recent(rows, 200)

(* C15: HealthAnalyzer.analyze on any window that contains no Internal     *)
(* state_update event (the empty window included, whatever other events    *)
(* are present) does not raise and returns arousal, confidence,            *)
(* confidence_floor, uncertainty and curiosity all absent, zeno_risk =     *)
(* burnout_risk = stagnation_risk = 0, and an empty notes list.            *)
C15_HealthWithoutState ==
    ( /\ h_snap # NoSnapshot
      /\ \A i \in DOMAIN Window :
            ~(Window[i].type = "internal" /\ Window[i].name = "state_update") )
    => /\ h_snap.event_count = Len(Window)
       /\ \A k \in HealthFields : h_snap[k] = NoFloat
       /\ h_snap.zeno_risk = 0
       /\ h_snap.burnout_risk = 0
       /\ h_snap.stagnation_risk = 0
       /\ h_snap.notes = << >>

\* a window of five light ticks: Internal events that carry a state, no
\* state_update, no Action and no Observation
C15_Witness ==
    /\ h_snap # NoSnapshot
    /\ Len(Window) = 5
    /\ \A i \in DOMAIN Window : Window[i].name = "light_tick"
    /\ h_snap.arousal = NoFloat
    /\ h_snap.zeno_risk = 0

(* C16: PhaseAnalyzer.analyze always returns phase_state in {stable,       *)
(* crowding, transition, stagnant} with this precedence: stagnant if       *)
(* action_density < 0.05 and observation_density < 0.05; otherwise         *)
(* transition if volatility > 0.7; otherwise crowding if internal_density  *)
(* > 0.55 and clustering > 0.6; otherwise stable.  On the empty window it  *)
(* returns event_count 0, all densities 0, coherence 1.0, phase_state      *)
(* stagnant and notes exactly ["no_events"].                               *)
C16_PhasePrecedence ==
    p_snap # NoSnapshot =>
        /\ p_snap.event_count = Len(Window)
        /\ p_snap.phase_state \in {"stable", "crowding", "transition", "stagnant"}
        /\ p_snap.phase_state =
              IF /\ p_snap.action_density < Milli(50)
                 /\ p_snap.observation_density < Milli(50) THEN "stagnant"
              ELSE IF p_snap.volatility > Milli(700) THEN "transition"
              ELSE IF /\ p_snap.internal_density > Milli(550)
                      /\ p_snap.clustering > Milli(600) THEN "crowding"
              ELSE "stable"
        /\ Window = << >> =>
              /\ p_snap.event_count = 0
              /\ p_snap.internal_density = 0
              /\ p_snap.action_density = 0
              /\ p_snap.observation_density = 0
              /\ p_snap.coherence = One
              /\ p_snap.phase_state = "stagnant"
              /\ p_snap.notes = <<"no_events">>

\* a window that meets the crowding test and the volatility test: transition wins
C16_Witness ==
    /\ p_snap # NoSnapshot
    /\ p_snap.phase_state = "transition"
    /\ p_snap.internal_density > Milli(550)
    /\ p_snap.clustering > Milli(600)
    /\ p_snap.action_density >= Milli(50)

C18_AppendOnly ==
    [][ /\ Len(rows') >= Len(rows)
        /\ \A i \in DOMAIN rows : rows'[i] = rows[i]
        /\ \A j \in DOMAIN rows' : \A i \in DOMAIN rows' :
              i < j => rows'[i].seq < rows'[j].seq ]_vars

\* an append_many that raised on its second event: the first one is in the
\* log, behind the rows of a regulator step and of an earlier append
C18_Witness ==
    /\ m_call.op = "append_many"
    /\ m_result.raised = "MemoryIntegrityError"
    /\ Len(m_call.arg) = 2
    /\ Len(rows) >= 3
    /\ rows[Len(rows)].event = m_call.arg[1]
    /\ \E i \in DOMAIN rows : rows[i].event.source = "background_core"
    /\ \E i \in DOMAIN rows : rows[i].event # m_call.arg[2]
                              /\ "id" \in DOMAIN rows[i].event
                              /\ rows[i].event.id = m_call.arg[2].id

(* C19: iter_since(N) returns exactly the records whose sequence number is *)
(* strictly greater than N, each once, in ascending sequence order;        *)
(* iter_since(last_seq()) is empty and last_seq() is 0 on an empty log.    *)
C19_IterSince ==
    /\ rows = << >> => last_seq(rows) = 0
    /\ iter_since(rows, last_seq(rows)) = << >>
    /\ m_call.op = "last_seq" =>
          m_result.value = IF rows = << >> THEN 0 ELSE rows[Len(rows)].seq
    /\ m_call.op = "iter_since" =>
          LET got == m_result.value
              N == m_call.arg
          IN  /\ \A j \in DOMAIN got : got[j].seq > N
              /\ \A j \in DOMAIN got : \E i \in DOMAIN rows : rows[i] = got[j]
              /\ \A i \in DOMAIN rows :
                    rows[i].seq > N =>
                        Cardinality({j \in DOMAIN got : got[j] = rows[i]}) = 1
              /\ \A j \in DOMAIN got : \A k \in DOMAIN got :
                    j < k => got[j].seq < got[k].seq

\* iter_since(1) on a log of three rows returns the second and the third
C19_Witness ==
    /\ m_call.op = "iter_since"
    /\ m_call.arg = 1
    /\ Len(rows) = 3
    /\ Len(m_result.value) = 2
    /\ m_result.value[1].seq = 2 /\ m_result.value[2].seq = 3

(* C20: delete_all_events() fails with MemoryIntegrityError on every call, *)
(* in every log state, and leaves the log unchanged; it never succeeds and *)
(* never silently does nothing.                                            *)
C20_DeleteForbidden ==
    [][ /\ ENABLED LogDeleteAll
        /\ LogDeleteAll =>
              /\ m_result'.raised = "MemoryIntegrityError"
              /\ rows' = rows ]_vars

\* a delete attempt on a log that holds rows
C20_Witness ==
    /\ m_call.op = "delete_all_events"
    /\ m_result.raised = "MemoryIntegrityError"
    /\ Len(rows) >= 2

\* the events of the rows that iter_since yields
EventsSince(tbl, n) ==
    [i \in 1..Len(iter_since(tbl, n)) |-> iter_since(tbl, n)[i].event]

(* C21: round trip: for any event accepted by append or append_many,       *)
(* reading it back through iter_since or recent yields an event with the   *)
(* same id, type, source, name, payload, parent_id and confidence as the   *)
(* one appended.                                                           *)
C21_RoundTrip ==
    /\ (m_call.op = "append" /\ m_result.raised = "") =>
          /\ recent(rows, 1) = m_call.arg
          /\ EventsSince(rows, m_result.value - 1) = m_call.arg
    /\ (m_call.op = "append_many" /\ m_result.raised = "") =>
          /\ recent(rows, Len(m_call.arg)) = m_call.arg
          /\ EventsSince(rows, m_result.value[2] - Len(m_call.arg)) = m_call.arg

(* C22: a single append that fails propagates an error and leaves the log  *)
(* unchanged: appending an event whose id is already in the log raises     *)
(* MemoryIntegrityError, appending an event whose payload cannot be        *)
(* serialized raises MemoryError, and in both cases the log contents and   *)
(* last_seq() are the same as before the call.                             *)
C22_FailedAppend ==
    [][ \A e \in LEvents :
          (m_call'.op = "append" /\ m_call'.arg = <<e>> /\ LogAppend(e)) =>
            /\ (json_dumps_raises(e.payload) = "" /\ IdTaken(rows, e)) =>
                    m_result'.raised = "MemoryIntegrityError"
            /\ json_dumps_raises(e.payload) # "" =>
                    m_result'.raised = "MemoryError"
            /\ m_result'.raised # "" =>
                    /\ rows' = rows
                    /\ last_seq(rows') = last_seq(rows) ]_vars

\* an event of the batch has an id that is in the log or earlier in the batch
BatchIdClash(tbl, b) ==
    \E i \in DOMAIN b :
        \/ IdTaken(tbl, b[i])
        \/ \E j \in 1..(i - 1) : b[j].id = b[i].id

(* C23: append_many is atomic: either every event of the batch is          *)
(* appended, in batch order with consecutive increasing sequence numbers,  *)
(* and (count, new tail sequence) is returned, or the call fails (an event *)
(* id duplicates one in the log or earlier in the batch, or a payload is   *)
(* not serializable) and none of the batch's events is in the log, neither *)
(* immediately after the failure nor after later successful appends on the *)
(* same store.                                                             *)
C23_AppendManyAtomic ==
    [][ \A b \in LBatches :
          (m_call'.op = "append_many" /\ m_call'.arg = b /\ LogAppendMany(b)) =>
            \/ /\ m_result'.raised = ""
               /\ Len(rows') = Len(rows) + Len(b)
               /\ \A i \in DOMAIN b :
                     /\ rows'[Len(rows) + i].seq = last_seq(rows) + i
                     /\ rows'[Len(rows) + i].event.id = b[i].id
               /\ m_result'.value = <<Len(b), last_seq(rows')>>
            \/ /\ m_result'.raised # ""
               /\ \/ BatchIdClash(rows, b)
                  \/ \E i \in DOMAIN b : json_dumps_raises(b[i].payload) # ""
               /\ rows' = rows ]_vars

\* the IdentityStore object s holds a record
Holds(store, s) == store[s].constructed /\ store[s].identity # NoIdentity

(* C24: an identity's incarnation changes only through                     *)
(* rebuild_incarnation, which raises it by exactly 1 and keeps             *)
(* identity_id, genesis_id and creation_tag unchanged; constructing an     *)
(* IdentityStore again on the same path loads the stored record (same      *)
(* identity_id and incarnation) instead of creating a new genesis.  Read   *)
(* per IdentityStore object: the record the object holds, the record its   *)
(* rebuild returns and writes.                                             *)
C24_IncarnationByRebuild ==
    [][ \A s \in Stores :
          /\ (Holds(id_store, s) /\ id_call'.op = "rebuild_incarnation"
                                /\ id_call'.arg[1] = s) =>
                /\ Holds(id_store', s)
                /\ id_store'[s].identity.incarnation = id_store[s].identity.incarnation + 1
                /\ id_store'[s].identity.identity_id = id_store[s].identity.identity_id
                /\ id_store'[s].identity.genesis_id = id_store[s].identity.genesis_id
                /\ id_store'[s].identity.creation_tag = id_store[s].identity.creation_tag
                /\ id_result' = Returned(id_store'[s].identity)
                /\ id_file'.exists
                /\ id_file'.data.incarnation = id_store'[s].identity.incarnation
                /\ id_file'.data.identity_id = id_store'[s].identity.identity_id
          /\ (Holds(id_store, s) /\ Holds(id_store', s)
                /\ ~(id_call'.op \in {"rebuild_incarnation", "__init__"}
                      /\ id_call'.arg[1] = s)) =>
                id_store'[s].identity = id_store[s].identity
          /\ (id_call'.op = "__init__" /\ id_call'.arg[1] = s /\ id_file.exists) =>
                /\ Holds(id_store', s)
                /\ id_store'[s].identity.identity_id = id_file.data.identity_id
                /\ id_store'[s].identity.genesis_id = id_file.data.genesis_id
                /\ id_store'[s].identity.incarnation = id_file.data.incarnation
                /\ id_file' = id_file
                /\ id_uuid' = id_uuid ]_vars

\* a second object, constructed with another creation_tag on the path where
\* the first one had rebuilt once, loaded incarnation 2 and rebuilt it to 3:
\* still the one genesis, with its creation_tag
C24_Witness ==
    /\ id_call.op = "rebuild_incarnation" /\ id_call.arg[1] = "again"
    /\ id_uuid = 2
    /\ id_store["again"].creation_tag = "probe"
    /\ Holds(id_store, "again")
    /\ id_store["again"].identity.incarnation = 3
    /\ id_store["again"].identity.creation_tag = "a7do"
    /\ Holds(id_store, "first")
    /\ id_store["first"].identity.incarnation = 2
    /\ id_file.data.incarnation = 3

(* C25: destroy_identity(confirm=False) is always rejected with an error   *)
(* and leaves the in-memory identity and the persisted record unchanged;   *)
(* only destroy_identity(confirm=True) removes the identity, after which   *)
(* get() and rebuild_incarnation() on that store fail.                     *)
C25_DestroyNeedsConfirm ==
    [][ \A s \in Stores :
          /\ (id_call'.op = "destroy_identity" /\ id_call'.arg = <<s, FALSE>>) =>
                /\ id_result'.raised = "RuntimeError"
                /\ id_store' = id_store
                /\ id_file' = id_file
          /\ (id_call'.op = "destroy_identity" /\ id_call'.arg = <<s, TRUE>>) =>
                /\ id_result'.raised = ""
                /\ ~Holds(id_store', s)
                /\ ~id_file'.exists
          /\ (Holds(id_store, s) /\ ~Holds(id_store', s)) =>
                (id_call'.op = "destroy_identity" /\ id_call'.arg = <<s, TRUE>>)
          /\ (id_file.exists /\ ~id_file'.exists) =>
                (id_call'.op = "destroy_identity" /\ id_call'.arg[2] = TRUE)
          /\ (id_store[s].constructed /\ ~Holds(id_store, s)
                /\ id_call'.op \in {"get", "rebuild_incarnation"}
                /\ id_call'.arg[1] = s) =>
                /\ id_result'.raised = "RuntimeError"
                /\ id_store' = id_store
                /\ id_file' = id_file ]_vars

\* the first object destroyed the identity with confirm=True; its
\* rebuild_incarnation() now raises, and the file is gone
C25_Witness ==
    /\ id_call = [op |-> "rebuild_incarnation", arg |-> <<"first", None>>]
    /\ id_result.raised = "RuntimeError"
    /\ id_store["first"].constructed
    /\ ~Holds(id_store, "first")
    /\ ~id_file.exists
    /\ id_uuid = 2

\* the Outcome events among those a World.step call returned
OutcomesOf(events) == {i \in DOMAIN events : events[i].type = "outcome"}

\* the target cell of a move is out of bounds or holds a solid object
TargetBlocked(w, x, y) ==
    \/ ~(0 <= x /\ x < w.width /\ 0 <= y /\ y < w.height)
    \/ /\ <<x, y>> \in DOMAIN w.objects
       /\ w.objects[<<x, y>>].solid

\* C26: for a "move" Action given to World.step with a spawned agent the
\* world returns exactly one Outcome, whose parent_id is the Action's id; it
\* has ok false and the agent stays where it was when the target cell is out
\* of bounds or holds a solid object, and ok true with the agent moved by
\* (dx, dy) otherwise; the agent, spawned in bounds, is in bounds in every
\* state; and in the log written by SystemBootstrap every Outcome with a
\* parent_id has its parent Action in a row with a smaller sequence number.
C26_MoveOutcome ==
    /\ (w_action.type = "action" /\ w_action.name = "move" /\ w_before # NoAgent) =>
           /\ Cardinality(OutcomesOf(w_events)) = 1
           /\ \A i \in OutcomesOf(w_events) :
                  /\ w_events[i].parent_id = w_action.id
                  /\ \E dx \in {Get(w_action.payload, "dx", 0)} :
                     \E dy \in {Get(w_action.payload, "dy", 0)} :
                         IF TargetBlocked(world, w_before.x + dx, w_before.y + dy)
                         THEN /\ w_events[i].payload.ok = "False"
                              /\ world.agent = w_before
                         ELSE /\ w_events[i].payload.ok = "True"
                              /\ world.agent.x = w_before.x + dx
                              /\ world.agent.y = w_before.y + dy
    /\ world.agent # NoAgent =>
           /\ 0 <= world.agent.x /\ world.agent.x < world.width
           /\ 0 <= world.agent.y /\ world.agent.y < world.height
    /\ \A i \in DOMAIN rows :
           (rows[i].event.type = "outcome" /\ "parent_id" \in DOMAIN rows[i].event) =>
               \E j \in DOMAIN rows :
                   /\ rows[j].event.type = "action"
                   /\ rows[j].event.id = rows[i].event.parent_id
                   /\ rows[j].seq < rows[i].seq

\* C26 witness: a move into the solid object was refused, an earlier move
\* had taken the agent away from where it was spawned, and both Outcomes are
\* in the log
C26_Witness ==
    /\ w_action.type = "action" /\ w_action.name = "move"
    /\ \E i \in OutcomesOf(w_events) :
           /\ w_events[i].name = "move_blocked"
           /\ w_events[i].payload.reason = "collision"
           /\ \E j \in DOMAIN rows :
                  /\ rows[j].event.type = "outcome"
                  /\ rows[j].event.parent_id = w_action.id
    /\ \E j \in DOMAIN rows : rows[j].event.name = "move_ok"

(* C27: a full cycle emits warning_low_recovery_persistence iff in that    *)
(* full cycle and in each of the 7 full cycles before it the confidence    *)
(* gained over the cycle was below 0.12 and arousal did not fall (both     *)
(* measured from the state at the start of the cycle); so the warning is   *)
(* emitted again in every following full cycle while that keeps holding;   *)
(* consecutive_low_recovery_cycles is 0 after a full cycle where it failed.*)
C27_LowRecoveryWarning ==
    IsFullCycle(emitted) =>
        /\ HasEvent(emitted, "warning_low_recovery_persistence")
              <=> (Len(low_trace) = 8 /\ \A i \in 1..8 : low_trace[i])
        /\ ~low_trace[Len(low_trace)] => state.consecutive_low_recovery_cycles = 0

\* the warning fires for the eighth low-recovery cycle in a row, not having
\* fired in the cycle before
C27_Witness ==
    /\ IsFullCycle(emitted)
    /\ HasEvent(emitted, "warning_low_recovery_persistence")
    /\ state.consecutive_low_recovery_cycles = 8
    /\ state.cycles > 8

\* the warning has fired in more than one cycle, and then a full cycle where
\* the condition failed put the streak back to 0
C27_WitnessReset ==
    /\ IsFullCycle(emitted)
    /\ Len(low_trace) = 8
    /\ ~low_trace[8]
    /\ \A i \in 1..7 : low_trace[i]
    /\ state.consecutive_low_recovery_cycles = 0

(* C28: confidence_floor is greater after a step() than before it only if  *)
(* the step was a full cycle that ended with arousal strictly lower and    *)
(* confidence strictly higher than they were when it began; a full cycle   *)
(* with only one of the two, and every light tick, does not raise it.      *)
C28_FloorRaisedOnlyOnRecovery ==
    [][ state'.confidence_floor > state.confidence_floor =>
            /\ IsFullCycle(emitted')
            /\ state'.cycles = state.cycles + 1
            /\ state'.arousal < state.arousal
            /\ state'.confidence > state.confidence ]_vars

\* a full cycle has just raised the floor
C28_Witness ==
    /\ IsFullCycle(emitted)
    /\ emitted[1].payload.delta.confidence_floor > 0
    /\ emitted[1].payload.delta.arousal < 0
    /\ emitted[1].payload.delta.confidence > 0

\* a full cycle in which confidence rose and arousal did not fall, and one in
\* which arousal fell and confidence did not rise: the floor was not raised
C28_WitnessOneOnly ==
    /\ IsFullCycle(emitted)
    /\ emitted[1].payload.delta.confidence_floor <= 0
    /\ \/ emitted[1].payload.delta.confidence > 0 /\ emitted[1].payload.delta.arousal >= 0
       \/ emitted[1].payload.delta.confidence <= 0 /\ emitted[1].payload.delta.arousal < 0

(* C29: a step() that finds 1 to 9 new rows (a light tick) returns exactly *)
(* one event, the Internal light_tick, and no System warning whatever the  *)
(* streak counters are; it leaves cycles, both streak counters and         *)
(* confidence_floor as they were, so a light tick between two full cycles  *)
(* neither resets nor advances a warning streak.                           *)
C29_LightTickFrame ==
    [][ (Step /\ 1 <= Unread /\ Unread <= 9) =>
            /\ Len(emitted') = 1
            /\ emitted'[1].type = "internal"
            /\ emitted'[1].name = "light_tick"
            /\ state'.cycles = state.cycles
            /\ state'.consecutive_high_arousal_cycles = state.consecutive_high_arousal_cycles
            /\ state'.consecutive_low_recovery_cycles = state.consecutive_low_recovery_cycles
            /\ state'.confidence_floor = state.confidence_floor ]_vars

\* a light tick taken while both streaks are at or past their limits
C29_Witness ==
    /\ Len(emitted) = 1
    /\ emitted[1].name = "light_tick"
    /\ state.consecutive_high_arousal_cycles >= high_arousal_cycle_limit
    /\ state.consecutive_low_recovery_cycles >= low_recovery_cycle_limit

\* the places of the state_update events in what a step() returned
UpdatesIn(evs) == {i \in DOMAIN evs : evs[i].name = "state_update"}

(* C30: every full cycle, over 10 or more new rows or over none, returns   *)
(* exactly one state_update, placed before any warning of the cycle, and   *)
(* raises cycles by exactly 1; a light tick returns none and leaves cycles;*)
(* so cycles always equals the number of state_update events the regulator *)
(* has emitted, and the k-th state_update, like every warning of its       *)
(* cycle, carries "cycles" = k - 1.                                        *)
C30_CyclesCountUpdates ==
    /\ [](state.cycles = updates)
    /\ [][ Step =>
             IF Unread = 0 \/ Unread >= 10
             THEN /\ UpdatesIn(emitted') = {1}
                  /\ state'.cycles = state.cycles + 1
                  /\ \A i \in DOMAIN emitted' : emitted'[i].payload.cycles = updates' - 1
                  /\ \A i \in DOMAIN emitted' : i > 1 => emitted'[i].type = "system"
             ELSE /\ UpdatesIn(emitted') = {}
                  /\ state'.cycles = state.cycles ]_vars

\* an experience cycle, not the first cycle, that returned its state_update
\* followed by both warnings, after a light tick
C30_Witness ==
    /\ IsFullCycle(emitted)
    /\ Len(emitted) = 3
    /\ new_count >= 10
    /\ ticks > 0
    /\ updates > 8
    /\ emitted[1].payload.cycles = updates - 1
    /\ emitted[3].payload.cycles = updates - 1

\* the rows an experience cycle read that are Outcome events whose payload
\* "ok" is exactly v
OkOutcomes(v) ==
    {i \in DOMAIN rows :
        /\ rows[i].seq \in {read_seqs[j] : j \in DOMAIN read_seqs}
        /\ rows[i].event.type = "outcome"
        /\ "ok" \in DOMAIN rows[i].event.payload
        /\ rows[i].event.payload.ok = v}

(* C31: in an experience cycle failure_rate = failures / max(1, failures + *)
(* successes), where successes are the Outcome events read whose "ok" is   *)
(* exactly true and failures those whose "ok" is exactly false; Outcomes   *)
(* without "ok" or with another value, and events that are not Outcomes,   *)
(* count as neither; when no Outcome read carries such an "ok" the rate is *)
(* 0, so confidence rises by the whole 0.02 and arousal gets no failure    *)
(* bump.                                                                   *)
C31_FailureRate ==
    (Kind(emitted) = "experience") =>
        \E failures \in {Cardinality(OkOutcomes("False"))} :
        \E successes \in {Cardinality(OkOutcomes("True"))} :
        \E fr \in {emitted[1].payload.signal.failure_rate} :
            /\ fr.num * Max(1, failures + successes) = failures * fr.den
            /\ fr.den > 0
            /\ (failures + successes = 0) =>
                   /\ fr.num = 0
                   /\ emitted[1].payload.delta.confidence = confidence_rise_on_success
                   /\ emitted[1].payload.delta.arousal
                          = Scale(arousal_bump_on_observation,
                                  emitted[1].payload.signal.obs, new_count) - arousal_decay

\* an experience cycle over a batch with one failure, two successes, and all
\* the events that count as neither
C31_Witness ==
    /\ Kind(emitted) = "experience"
    /\ Cardinality(OkOutcomes("False")) = 1
    /\ Cardinality(OkOutcomes("True")) = 2
    /\ Cardinality(OkOutcomes("1")) = 1
    /\ emitted[1].payload.signal.outcome = 6
    /\ emitted[1].payload.signal.failure_rate.den = 3

\* an experience cycle over a batch whose only Outcomes carry no "ok", or an
\* "ok" that is neither true nor false
C31_WitnessNone ==
    /\ Kind(emitted) = "experience"
    /\ emitted[1].payload.signal.outcome = 3
    /\ OkOutcomes("False") = {}
    /\ OkOutcomes("True") = {}

\* the key of the observed position an event carries ("pos:x,y", the
\* coordinates cut to whole numbers), "" when it carries none
PrefKeyOf(e) ==
    IF /\ "observed" \in DOMAIN e.payload
       /\ "position" \in DOMAIN e.payload.observed
       /\ e.payload.observed.position.py \in {"list", "tuple"}
       /\ e.payload.observed.position.items # << >>
    THEN "pos:" \o ToString(int(e.payload.observed.position.items[1]))
                \o "," \o ToString(int(e.payload.observed.position.items[2]))
    ELSE ""

\* an expectation_confirmed with a position
IsConfirmation(e) ==
    e.type = "internal" /\ e.name = "expectation_confirmed" /\ PrefKeyOf(e) # ""

\* a prediction_error of 0.3 or more with a position
IsSurprise(e) ==
    /\ e.type = "internal" /\ e.name = "prediction_error" /\ PrefKeyOf(e) # ""
    /\ "error" \in DOMAIN e.payload
    /\ e.payload.error >= Milli(300)

\* the sum of the errors of the surprises at key k among events
RECURSIVE ErrorSumAt(_, _)
ErrorSumAt(events, k) ==
    IF events = << >> THEN 0
    ELSE (IF IsSurprise(Head(events)) /\ PrefKeyOf(Head(events)) = k
          THEN Head(events).payload.error ELSE 0)
         + ErrorSumAt(Tail(events), k)

\* the number of confirmations at key k among events
ConfirmedAt(events, k) ==
    Cardinality({i \in DOMAIN events : IsConfirmation(events[i]) /\ PrefKeyOf(events[i]) = k})

(* C32: after any sequence of events given to PreferenceEngine.observe,    *)
(* over any number of calls, score["pos:x,y"] = learning_rate * (number of *)
(* expectation_confirmed events with observed position (x,y))              *)
(* - learning_rate * (sum of the errors of the prediction_error events at  *)
(* (x,y) with error >= 0.3), and a key has a score only if such an event   *)
(* came; the events returned are one preference_updated per such event, in *)
(* their order, with its key and its delta; every other event changes no   *)
(* score and emits nothing.                                                *)
C32_PreferenceScore ==
    engine = "preference" =>
        /\ \A k \in FKeys \cup DOMAIN scores :
               /\ ScoresGet(scores, k)
                      = lr * ConfirmedAt(fed, k) - Times(lr, ErrorSumAt(fed, k))
               /\ k \in DOMAIN scores =>
                      \E i \in DOMAIN fed :
                          /\ IsConfirmation(fed[i]) \/ IsSurprise(fed[i])
                          /\ PrefKeyOf(fed[i]) = k
        /\ \E counted \in {SelectSeq(fed, LAMBDA e : IsConfirmation(e) \/ IsSurprise(e))} :
               /\ Len(all_out) = Len(counted)
               /\ \A i \in DOMAIN all_out :
                      /\ all_out[i].type = "internal"
                      /\ all_out[i].name = "preference_updated"
                      /\ all_out[i].payload.key = PrefKeyOf(counted[i])
                      /\ all_out[i].payload.delta
                             = IF IsConfirmation(counted[i]) THEN lr
                               ELSE 0 - Times(lr, counted[i].payload.error)
        /\ \E counted \in {SelectSeq(f_in, LAMBDA e : IsConfirmation(e) \/ IsSurprise(e))} :
               /\ Len(f_out) = Len(counted)
               /\ counted = << >> => scores = f_before

\* over two calls or more: one confirmation and one error of 1.0 at (3,4)
\* cancel, an error of 0.3 at (1,1) is counted, a fourth event is not
C32_Witness ==
    /\ engine = "preference"
    /\ Len(fed) = 4
    /\ Len(f_in) < 4
    /\ Len(all_out) = 3
    /\ ConfirmedAt(fed, "pos:3,4") = 1
    /\ ErrorSumAt(fed, "pos:3,4") = One
    /\ "pos:3,4" \in DOMAIN scores
    /\ scores["pos:3,4"] = 0
    /\ "pos:1,1" \in DOMAIN scores
    /\ scores["pos:1,1"] = 0 - Times(lr, Milli(300))

\* the places of the Internal state_update events in the window
StateUpdates == {i \in DOMAIN Window :
                    Window[i].type = "internal" /\ Window[i].name = "state_update"}

\* the window with another state snapshot in each of its light ticks
Relit(events) ==
    [i \in DOMAIN events |->
        IF events[i].name = "light_tick"
        THEN [events[i] EXCEPT !.payload.state =
                 [arousal |-> One, valence |-> 0, confidence |-> Milli(20),
                  confidence_floor |-> Milli(600), uncertainty |-> One,
                  curiosity |-> One]]
        ELSE events[i]]

QuietSinceStep ==
    /\ new_count # 0 - 1
    /\ last_seq(rows) = state.last_seen_seq + Len(emitted)

(* C34: every step() returns at least one event, and the returned events   *)
(* are appended to the log behind the cursor the step leaves, so the next  *)
(* step reads them as new; hence a step() that follows another step() with *)
(* nothing appended in between finds 1 to 3 new rows and is a light tick,  *)
(* and a stagnation cycle can only be the first step() after construction. *)
C34_OwnEmissionsAreNew ==
    [][ Step =>
          /\ Len(emitted') >= 1
          /\ Len(rows') >= Len(emitted')
          /\ \A i \in DOMAIN emitted' :
                 /\ rows'[Len(rows') - Len(emitted') + i].event = emitted'[i]
                 /\ rows'[Len(rows') - Len(emitted') + i].seq > state'.last_seen_seq
          /\ QuietSinceStep =>
                 /\ 1 <= new_count' /\ new_count' <= 3
                 /\ new_count' = Len(emitted)
                 /\ Kind(emitted') = "light_tick"
          /\ Kind(emitted') = "stagnation" => new_count = 0 - 1 ]_vars

\* a light tick over the three rows of the cycle before it (a state_update
\* and both warnings), nothing else having been appended
C34_Witness ==
    /\ Kind(emitted) = "light_tick"
    /\ new_count = 3
    /\ Len(rows) >= 4
    /\ rows[Len(rows) - 1].event.type = "system"
    /\ rows[Len(rows) - 2].event.type = "system"
    /\ rows[Len(rows) - 3].event.name = "state_update"
    /\ state.last_seen_seq = rows[Len(rows) - 1].seq

-----------------------------------------------------------------------------
\* C35: every record appended after the regulator's construction is in the
\* new-event batch of at most one step(), and of exactly one once a later
\* step() has run: a step() reads exactly the records that no earlier step()
\* has read, in log order, so the records a light tick read are never
\* counted again, and the batch of an experience cycle is made of at least
\* cycle_event_threshold records that were all appended after the previous
\* step() read the log.
ReadBefore == Max(max_read, boot_seq)

NeverRead == SelectSeq(rows, LAMBDA r : r.seq > ReadBefore)

C35_ReadAtMostOnce ==
    [][ Step =>
          /\ \A i \in DOMAIN read_seqs' : read_seqs'[i] > ReadBefore
          /\ read_seqs' = [i \in 1..Len(NeverRead) |-> NeverRead[i].seq]
          /\ \A i \in DOMAIN rows : rows[i].seq > boot_seq => rows[i].seq <= Max(max_read', boot_seq)
          /\ max_read' >= max_read
          /\ Kind(emitted') = "experience" =>
                 /\ Len(NeverRead) >= cycle_event_threshold
                 /\ new_count' = Len(NeverRead) ]_vars

\* a light tick has read nine records, and the experience cycle that follows
\* it is made of the tick's own record and nine records appended after it
C35_Witness ==
    /\ Kind(emitted) = "experience"
    /\ new_count = cycle_event_threshold
    /\ ticks > 0
    /\ read_seqs[1] > boot_seq + 9
    /\ \E i \in DOMAIN rows : /\ rows[i].seq = read_seqs[1]
                               /\ rows[i].event.name = "light_tick"

-----------------------------------------------------------------------------
(* Specification: the regulator over a log whose writers also bring moves  *)
(* of which one in four is blocked                                         *)

\* four moves, the last one blocked, as world.step reports them
Mixed ==
    [i \in 1..4 |-> observation("world", "position", [x |-> 3, y |-> 2])]
    \o [i \in 1..3 |-> outcome("world", "move_ok", [ok |-> "True"])]
    \o << observation("world", "boundary_contact",
                [from |-> PyTuple(<<4, 2>>), attempt |-> PyTuple(<<5, 2>>)]),
          outcome("world", "move_blocked", [ok |-> "False", reason |-> "out_of_bounds"]) >>

FloorBatches == {Calm, Hot, Mixed}

\* BackgroundCore(memory) over an empty log, the default BackgroundState
InitFloor ==
    /\ Init
    /\ rows = << >>
    /\ warmup = 0

NextFloor ==
    \/ \E b \in FloorBatches : AppendBatch(b)
    \/ Step
    \/ Forget

SpecFloor == InitFloor /\ [][NextFloor]_vars

-----------------------------------------------------------------------------
\* C36: from the default initial state, confidence_floor at the end of any
\* step() is at least its value at the start of that step(); in particular a
\* cycle that takes the branch that sets the floor down to the current
\* confidence (the raised floor was above it) leaves the floor at or above
\* the value it had when the cycle began.
C36_FloorNeverFalls ==
    [][ Step => state'.confidence_floor >= state.confidence_floor ]_vars

\* a cycle raised the floor past the confidence and the clamp took it back
\* down onto the confidence: less than the rise, and not below where it was
C36_Witness ==
    /\ IsFullCycle(emitted)
    /\ emitted[1].payload.delta.arousal < 0
    /\ emitted[1].payload.delta.confidence > 0
    /\ emitted[1].payload.delta.confidence_floor >= 0
    /\ emitted[1].payload.delta.confidence_floor < confidence_floor_rise_on_recovery
    /\ state.confidence_floor = state.confidence
    /\ state.confidence_floor < confidence_floor_max

-----------------------------------------------------------------------------
\* C37: with the default config the confidence gained over a full cycle is
\* at most 0.02 and so below low_recovery_threshold; a full cycle adds one
\* to consecutive_low_recovery_cycles exactly when its arousal did not
\* strictly decrease and puts it to 0 exactly when its arousal strictly
\* decreased; a cycle that leaves arousal pinned at arousal_min adds one.
\* A light tick leaves the counter as it is.
C37_LowRecoveryFollowsArousal ==
    [][ Step =>
          IF IsFullCycle(emitted')
          THEN /\ state'.confidence - state.confidence <= confidence_rise_on_success
               /\ state'.confidence - state.confidence < low_recovery_threshold
               /\ state'.arousal >= state.arousal
                     => state'.consecutive_low_recovery_cycles
                            = state.consecutive_low_recovery_cycles + 1
               /\ state'.arousal < state.arousal
                     => state'.consecutive_low_recovery_cycles = 0
          ELSE state'.consecutive_low_recovery_cycles
                   = state.consecutive_low_recovery_cycles ]_vars

\* a full cycle began and ended with arousal at its minimum, and counted
C37_Witness ==
    /\ IsFullCycle(emitted)
    /\ state.arousal = arousal_min
    /\ emitted[1].payload.delta.arousal = 0
    /\ state.consecutive_low_recovery_cycles >= 1

\* a full cycle gained the whole 0.02 of confidence while its arousal fell,
\* and the counter, which stood at 8 or more, is back at 0
C37_WitnessReset ==
    /\ IsFullCycle(emitted)
    /\ emitted[1].payload.delta.confidence = confidence_rise_on_success
    /\ emitted[1].payload.delta.arousal < 0
    /\ state.consecutive_low_recovery_cycles = 0
    /\ Len(low_trace) = 8
    /\ \A i \in 1..7 : low_trace[i]

-----------------------------------------------------------------------------
\* C38: PredictionEngine, PreferenceEngine and BoundaryDetector do not
\* depend on how the events are split into observe() calls: whatever the
\* calls were, the events they returned, in order, and the engine state
\* they left are those of one observe() call of a new engine on the whole
\* sequence.
C38_SplitInvariant ==
    /\ engine = "prediction" =>
          \E r \in {observe(<< >>, fed)} :
              r.emitted = all_out /\ r.expected = expected
    /\ engine = "preference" =>
          \E r \in {preference_observe(<< >>, lr, fed)} :
              r.emitted = all_out /\ r.scores = scores
    /\ engine = "boundary" =>
          \E r \in {boundary_observe(<< >>, threshold, fed)} :
              r.emitted = all_out /\ r.hits = hits

\* an Action was given in one call and its Outcome at the head of the next,
\* which returned the prediction_error
C38_Witness ==
    /\ engine = "prediction"
    /\ Len(fed) > Len(p_in)
    /\ fed[Len(fed) - Len(p_in)].type = "action"
    /\ p_in[1].type = "outcome"
    /\ p_before # << >>
    /\ p_out # << >>
    /\ p_out[1].name = "prediction_error"

\* the hits of an earlier call and one hit of the last call together reach
\* the threshold
C38_WitnessBoundary ==
    /\ engine = "boundary"
    /\ threshold = 2
    /\ Len(fed) > Len(b_in)
    /\ HitsGet(b_before, <<3, 4>>) = 1
    /\ Len(b_out) = 1
    /\ b_out[1].payload.position = [x |-> 3, y |-> 4]

\* a key scored in an earlier call is scored again in the last call
C38_WitnessPreference ==
    /\ engine = "preference"
    /\ Len(fed) > Len(f_in)
    /\ ScoresGet(f_before, "pos:3,4") # 0
    /\ f_out # << >>
    /\ f_out[1].payload.key = "pos:3,4"

-----------------------------------------------------------------------------
\* C40: over the events given to a PredictionEngine so far, the
\* prediction_error events emitted are at most as many as the Outcomes seen
\* and at most as many as the Actions seen; every expectation_confirmed
\* comes directly after a prediction_error with the same expectation and the
\* same observed Outcome; and an expectation is pending exactly when an
\* Action has arrived after which no Outcome has arrived.
TypeCount(events, type) == Cardinality({i \in DOMAIN events : events[i].type = type})

NameCount(events, name) == Cardinality({i \in DOMAIN events : events[i].name = name})

ActionSinceOutcome ==
    \E i \in DOMAIN fed :
        /\ fed[i].type = "action"
        /\ \A j \in DOMAIN fed : j > i => fed[j].type # "outcome"

C40_ErrorsBounded ==
    engine = "prediction" =>
        /\ NameCount(all_out, "prediction_error") <= TypeCount(fed, "outcome")
        /\ NameCount(all_out, "prediction_error") <= TypeCount(fed, "action")
        /\ \A i \in DOMAIN all_out :
               all_out[i].name = "expectation_confirmed" =>
                   /\ i > 1
                   /\ all_out[i - 1].name = "prediction_error"
                   /\ all_out[i - 1].payload.observed = all_out[i].payload.observed
                   /\ all_out[i - 1].payload.expected = all_out[i].payload.expected
                   /\ \E j \in DOMAIN fed : /\ fed[j].type = "outcome"
                                             /\ fed[j].payload = all_out[i].payload.observed
        /\ expected # << >> <=> ActionSinceOutcome

\* an Outcome came before any Action and was passed over, the next Outcome
\* confirmed the expectation of an Action, and a later Action is pending
C40_Witness ==
    /\ engine = "prediction"
    /\ NameCount(all_out, "prediction_error") = 1
    /\ NameCount(all_out, "expectation_confirmed") = 1
    /\ TypeCount(fed, "outcome") = 2
    /\ TypeCount(fed, "action") = 2
    /\ fed[1].type = "outcome"
    /\ expected # << >>

\* three Actions and one Outcome: one prediction_error, nothing pending
C40_WitnessFewer ==
    /\ engine = "prediction"
    /\ NameCount(all_out, "prediction_error") = 1
    /\ TypeCount(fed, "action") = 3
    /\ TypeCount(fed, "outcome") = 1
    /\ expected = << >>

-----------------------------------------------------------------------------
\* C39: in a SystemBootstrap run on a log that only this bootstrap writes,
\* whatever apply_move and step calls are made, with or without user text,
\* with autonomy on or off, every BackgroundCore.step() finds between 1 and
\* 9 new records and is a light tick: the regulator's cycles counter stays
\* 0 and the regulator never appends a state_update or a warning.
C39_BootstrapOnlyTicks ==
    bootstrap.constructed =>
        /\ state.cycles = 0
        /\ new_count # 0 - 1 =>
              /\ 1 <= new_count
              /\ new_count <= 9
              /\ Kind(emitted) = "light_tick"
              /\ Len(emitted) = 1
        /\ \A i \in DOMAIN rows :
               rows[i].event.source = "background_core" =>
                   /\ rows[i].event.name = "light_tick"
                   /\ rows[i].event.type = "internal"

\* an autonomous bootstrap has run step with user text and a blocked move,
\* and its regulator has ticked four times
C39_Witness ==
    /\ bootstrap.constructed
    /\ bootstrap.enable_autonomy
    /\ ticks >= 4
    /\ new_count >= 4
    /\ \E i \in DOMAIN rows : rows[i].event.name = "utterance"
    /\ \E i \in DOMAIN rows : rows[i].event.name = "move_blocked"
    /\ Cardinality({i \in DOMAIN rows : rows[i].event.name = "light_tick"}) >= 4

====
